---- MODULE Spec2Model ----
(***************************************************************************)
(* A model of the scanner core of buger/jsonparser.                        *)
(*                                                                         *)
(* Two revisions of the parser are in the repository and both are          *)
(* modelled: src/unnamed/part_003 (definitions with the source's names)    *)
(* and src/parser.go (the same names with the suffix P).                   *)
(*                                                                         *)
(* A buffer is a sequence of one-character strings.  Offsets are Go's      *)
(* 0-based offsets; At, Drop and Slice are Go's s[i], s[n:] and s[a:b].    *)
(* A Go run-time fault (index or slice out of range) is the value          *)
(* panic = TRUE of a result.                                               *)
(***************************************************************************)
EXTENDS Integers, Sequences, FiniteSets, TLC

VARIABLES data, keys, paths, doc, pc, res

vars == <<data, keys, paths, doc, pc, res>>

----------------------------------------------------------------------------
(* Bytes and slices *)

QUOTE == "\""
BSL == "\\"
WS == {" ", "\n", "\r", "\t"}
Terminators == WS \cup {",", "}", "]"}
Digits == {"0", "1", "2", "3", "4", "5", "6", "7", "8", "9"}

At(s, i) == s[i + 1]
Drop(s, n) == SubSeq(s, n + 1, Len(s))
Slice(s, a, b) == SubSeq(s, a + 1, b)

Min(S) == CHOOSE x \in S : \A y \in S : x <= y

trueLiteral == <<"t", "r", "u", "e">>
falseLiteral == <<"f", "a", "l", "s", "e">>
nullLiteral == <<"n", "u", "l", "l">>

----------------------------------------------------------------------------
(* Lexical primitives, src/unnamed/part_003 lines 27-111 *)

\* part_003: end of input terminates a bare token.
tokenEnd(d) ==
    LET hits == {i \in 0..(Len(d) - 1) : At(d, i) \in Terminators}
    IN  IF hits = {} THEN Len(d) ELSE Min(hits)

\* parser.go: no terminator byte, no token end.
tokenEndP(d) ==
    LET hits == {i \in 0..(Len(d) - 1) : At(d, i) \in Terminators}
    IN  IF hits = {} THEN -1 ELSE Min(hits)

nextToken(d) ==
    LET hits == {i \in 0..(Len(d) - 1) : At(d, i) \notin WS}
    IN  IF hits = {} THEN -1 ELSE Min(hits)

\* A walk that takes every quote for a closing one.
everyQuoteCloses(d, j) == TRUE

\* The walk of lines 61-72: TRUE when the backslashes that end at d[j] are
\* an even number (the quote after them closes the string).
RECURSIVE evenBackslashes(_, _)
evenBackslashes(d, j) ==
    IF j < 0 \/ At(d, j) # BSL THEN TRUE
    ELSE IF j - 1 < 0 \/ At(d, j - 1) # BSL THEN FALSE
    ELSE evenBackslashes(d, j - 2)

RECURSIVE stringEndFrom(_, _, _)
stringEndFrom(d, i, escaped) ==
    IF i >= Len(d) THEN [end |-> -1, escaped |-> escaped]
    ELSE IF At(d, i) = QUOTE
         THEN IF ~escaped THEN [end |-> i + 1, escaped |-> FALSE]
              ELSE IF evenBackslashes(d, i - 1)
                   THEN [end |-> i + 1, escaped |-> TRUE]
                   ELSE stringEndFrom(d, i + 1, escaped)
    ELSE IF At(d, i) = BSL THEN stringEndFrom(d, i + 1, TRUE)
    ELSE stringEndFrom(d, i + 1, escaped)

stringEnd(d) == stringEndFrom(d, 0, FALSE)

\* A scan that counts the brackets inside strings too.
RECURSIVE blockEndCounting(_, _, _, _, _)
blockEndCounting(d, openSym, closeSym, i, level) ==
    IF i >= Len(d) THEN -1
    ELSE IF At(d, i) = openSym
    THEN blockEndCounting(d, openSym, closeSym, i + 1, level + 1)
    ELSE IF At(d, i) = closeSym
    THEN IF level - 1 = 0 THEN i + 1
         ELSE blockEndCounting(d, openSym, closeSym, i + 1, level - 1)
    ELSE blockEndCounting(d, openSym, closeSym, i + 1, level)

RECURSIVE blockEndFrom(_, _, _, _, _)
blockEndFrom(d, openSym, closeSym, i, level) ==
    IF i >= Len(d) THEN -1
    ELSE LET c == At(d, i) IN
         IF c = QUOTE
         THEN LET se == stringEnd(Drop(d, i + 1)).end
              IN  IF se = -1 THEN -1
                  ELSE blockEndFrom(d, openSym, closeSym, i + se + 1, level)
         ELSE IF c = openSym
         THEN blockEndFrom(d, openSym, closeSym, i + 1, level + 1)
         ELSE IF c = closeSym
         THEN IF level - 1 = 0 THEN i + 1
              ELSE blockEndFrom(d, openSym, closeSym, i + 1, level - 1)
         ELSE blockEndFrom(d, openSym, closeSym, i + 1, level)

blockEnd(d, openSym, closeSym) == blockEndFrom(d, openSym, closeSym, 0, 0)

----------------------------------------------------------------------------
(* Error tags (part_003 lines 12-21) and value kinds (lines 411-420) *)

ErrNil == "nil"
KeyPathNotFoundError == "KeyPathNotFoundError"
UnknownValueTypeError == "UnknownValueTypeError"
MalformedJsonError == "MalformedJsonError"
MalformedStringError == "MalformedStringError"
MalformedArrayError == "MalformedArrayError"
MalformedObjectError == "MalformedObjectError"
MalformedValueError == "MalformedValueError"
MalformedStringEscapeError == "MalformedStringEscapeError"

NotExist == "NotExist"
String == "String"
Number == "Number"
Object == "Object"
Array == "Array"
Boolean == "Boolean"
Null == "Null"
Unknown == "Unknown"

----------------------------------------------------------------------------
(* Key decoding.  Unescape and equalStr are not among the source files;    *)
(* they are modelled from section 4.7 of the specification.  A \uXXXX      *)
(* escape is outside the model: no input of any specification holds one.   *)

SimpleEscapes == {QUOTE, BSL, "/"}
ControlEscapes == {"b", "f", "n", "r", "t"}

ControlByte(c) ==
    CASE c = "n" -> "\n"
      [] c = "r" -> "\r"
      [] c = "t" -> "\t"
      [] c = "f" -> "\f"
      [] OTHER -> "<BS>"

RECURSIVE UnescapeFrom(_, _, _)
UnescapeFrom(k, i, out) ==
    IF i >= Len(k) THEN [ok |-> TRUE, out |-> out]
    ELSE IF At(k, i) # BSL THEN UnescapeFrom(k, i + 1, Append(out, At(k, i)))
    ELSE IF i + 1 >= Len(k) THEN [ok |-> FALSE, out |-> <<>>]
    ELSE IF At(k, i + 1) \in SimpleEscapes
         THEN UnescapeFrom(k, i + 2, Append(out, At(k, i + 1)))
    ELSE IF At(k, i + 1) \in ControlEscapes
         THEN UnescapeFrom(k, i + 2, Append(out, ControlByte(At(k, i + 1))))
    ELSE [ok |-> FALSE, out |-> <<>>]

Unescape(k) == UnescapeFrom(k, 0, <<>>)

equalStr(b, s) == b = s

\* strconv.Atoi as the parser uses it: the value, or 0 when the text is no
\* decimal integer (the error is dropped at part_003 line 181).
RECURSIVE DigitsValue(_, _)
DigitsValue(s, acc) ==
    IF Len(s) = 0 THEN acc
    ELSE DigitsValue(Tail(s),
                     10 * acc + (CHOOSE n \in 0..9 : At(<<"0", "1", "2", "3", "4", "5", "6", "7", "8", "9">>, n) = Head(s)))

AtoiOk(s) ==
    LET body == IF Len(s) > 0 /\ Head(s) \in {"+", "-"} THEN Tail(s) ELSE s
    IN  Len(body) > 0 /\ \A n \in 1..Len(body) : body[n] \in Digits

Atoi(s) ==
    IF ~AtoiOk(s) THEN 0
    ELSE IF Head(s) = "-" THEN 0 - DigitsValue(Tail(s), 0)
    ELSE IF Head(s) = "+" THEN DigitsValue(Tail(s), 0)
    ELSE DigitsValue(s, 0)

----------------------------------------------------------------------------
(* Results.  panic is a Go run-time fault, hang a scan that never ends.    *)

SKRet(off) == [off |-> off, panic |-> FALSE, hang |-> FALSE]

GetRet(v, t, o, e) ==
    [value |-> v, dataType |-> t, offset |-> o, err |-> e, panic |-> FALSE, hang |-> FALSE]
GetStop(panic, hang) ==
    [value |-> <<>>, dataType |-> NotExist, offset |-> -1, err |-> ErrNil,
     panic |-> panic, hang |-> hang]

EachRet(o, e, calls) ==
    [offset |-> o, err |-> e, calls |-> calls, panic |-> FALSE, hang |-> FALSE]
EachStop(panic, hang, calls) ==
    [offset |-> -1, err |-> ErrNil, calls |-> calls, panic |-> panic, hang |-> hang]

Call(v, t, o, e) == [value |-> v, dataType |-> t, offset |-> o, err |-> e]

----------------------------------------------------------------------------
(* get, arrayEach and searchKeys of src/unnamed/part_003 *)

RECURSIVE searchKeys(_, _)
RECURSIVE get(_, _, _)
RECURSIVE arrayEach(_, _, _)

\* get that reads on behind the value: a byte x anywhere after the byte
\* that ends the value makes the document malformed.
getDoneStrict(getfix, d, offset, t, endOffset) ==
    IF \E j \in (endOffset + 1)..(Len(d) - 1) : At(d, j) = "x"
    THEN GetRet(<<>>, NotExist, -1, MalformedJsonError)
    ELSE GetRet(IF t = Null THEN <<>>
                ELSE IF ~getfix /\ t = String THEN Slice(d, offset + 1, endOffset - 1)
                ELSE Slice(d, offset, endOffset),
                t, endOffset, ErrNil)

\* get, lines 542-553: the region of the value that ends at endOffset.
getDone(getfix, d, offset, t, endOffset) ==
    GetRet(IF t = Null THEN <<>>
           ELSE IF ~getfix /\ t = String THEN Slice(d, offset + 1, endOffset - 1)
           ELSE Slice(d, offset, endOffset),
           t, endOffset, ErrNil)

\* get, lines 510-541: a bare token of end bytes.
getBare(getfix, d, offset, end) ==
    IF end = -1 THEN GetRet(<<>>, NotExist, offset, MalformedValueError)
    ELSE IF At(d, offset) \in {"t", "f"}
    THEN IF Slice(d, offset, offset + end) \in {trueLiteral, falseLiteral}
         THEN getDone(getfix, d, offset, Boolean, offset + end)
         ELSE GetRet(<<>>, Unknown, offset, UnknownValueTypeError)
    ELSE IF At(d, offset) \in {"u", "n"}
    THEN IF Slice(d, offset, offset + end) = nullLiteral
         THEN getDone(getfix, d, offset, Null, offset + end)
         ELSE GetRet(<<>>, Unknown, offset, UnknownValueTypeError)
    ELSE IF At(d, offset) \in Digits \cup {"-"}
    THEN getDone(getfix, d, offset, Number, offset + end)
    ELSE GetRet(<<>>, Unknown, offset, UnknownValueTypeError)

\* get, lines 481-509: a string, an array or an object that starts at
\* offset; end is what stringEnd or blockEnd returned for it.
getQuoted(getfix, d, offset, idx) ==
    IF idx # -1 THEN getDone(getfix, d, offset, String, offset + idx + 1)
    ELSE GetRet(<<>>, String, offset, MalformedStringError)

getBlock(getfix, d, offset, t, e, endOffset) ==
    IF endOffset = -1 THEN GetRet(<<>>, t, offset, e)
    ELSE getDone(getfix, d, offset, t, endOffset + offset)

\* get, lines 473-553: the value that starts at or after offset0.
getValue(getfix, d, offset0) ==
    LET Token(offset) ==
            IF At(d, offset) = QUOTE
            THEN getQuoted(getfix, d, offset, stringEnd(Drop(d, offset + 1)).end)
            ELSE IF At(d, offset) = "["
            THEN getBlock(getfix, d, offset, Array, MalformedArrayError,
                          blockEnd(Drop(d, offset), "[", "]"))
            ELSE IF At(d, offset) = "{"
            THEN getBlock(getfix, d, offset, Object, MalformedObjectError,
                          blockEnd(Drop(d, offset), "{", "}"))
            ELSE getBare(getfix, d, offset, tokenEnd(Drop(d, offset)))
        Skip(nO) ==
            IF nO = -1 THEN GetRet(<<>>, NotExist, -1, MalformedJsonError)
            ELSE Token(offset0 + nO)
    IN  Skip(nextToken(Drop(d, offset0)))

\* get without the test of line 468: a miss is read as an offset.
getUnchecked(getfix, d, sk) ==
    IF sk.panic \/ sk.off < 0 \/ sk.off > Len(d) THEN GetStop(TRUE, FALSE)
    ELSE getValue(getfix, d, sk.off)

\* get, lines 467-471: sk is what searchKeys returned.
getFound(getfix, d, sk) ==
    IF sk.panic THEN GetStop(TRUE, FALSE)
    ELSE IF sk.off = -1 THEN GetRet(<<>>, NotExist, -1, KeyPathNotFoundError)
    ELSE IF sk.off < 0 \/ sk.off > Len(d) THEN GetStop(TRUE, FALSE)
    ELSE getValue(getfix, d, sk.off)

\* get, lines 466-554.
get(getfix, d, ks) ==
    IF Len(ks) > 0 THEN getFound(getfix, d, searchKeys(d, ks))
    ELSE getValue(getfix, d, 0)

Get(d, ks) == get(FALSE, d, ks)

\* arrayEach, the loop of lines 588-626.  calls are the visitor's calls so far.
RECURSIVE arrayEachLoop(_, _, _, _)
arrayEachLoop(getfix, d, offset, calls) ==
    LET Advance(calls2, off2, skipToToken) ==
            IF skipToToken = -1 THEN EachRet(off2, MalformedArrayError, calls2)
            ELSE IF At(d, off2 + skipToToken) = "]"
            THEN EachRet(off2 + skipToToken, ErrNil, calls2)
            ELSE IF At(d, off2 + skipToToken) # ","
            THEN EachRet(off2 + skipToToken, MalformedArrayError, calls2)
            ELSE arrayEachLoop(getfix, d, off2 + skipToToken + 1, calls2)
        Element(g) ==
            IF g.panic THEN EachStop(TRUE, FALSE, calls)
            ELSE IF g.offset = 0 THEN EachRet(offset, ErrNil, calls)
            ELSE IF g.err # ErrNil THEN EachRet(offset, g.err, calls)
            ELSE Advance(IF g.dataType # NotExist
                      THEN Append(calls, Call(g.value, g.dataType,
                                              offset + g.offset - Len(g.value), g.err))
                      ELSE calls,
                      offset + g.offset,
                      nextToken(Drop(d, offset + g.offset)))
    IN
    IF offset < 0 \/ offset > Len(d) THEN EachStop(TRUE, FALSE, calls)
    ELSE Element(get(getfix, Drop(d, offset), <<>>))

\* arrayEach, lines 561-586, then the loop.
arrayEach(getfix, d, ks) ==
    LET Bracket(off, nO) ==
            IF nO = -1 THEN EachRet(off, MalformedJsonError, <<>>)
            ELSE IF At(d, off + nO) # "[" THEN EachRet(off + nO, MalformedArrayError, <<>>)
            ELSE arrayEachLoop(getfix, d, off + nO + 1, <<>>)
        Found(sk) ==
            IF sk.panic THEN EachStop(TRUE, FALSE, <<>>)
            ELSE IF sk.off = -1 THEN EachRet(-1, KeyPathNotFoundError, <<>>)
            ELSE IF sk.off < 0 \/ sk.off > Len(d) THEN EachStop(TRUE, FALSE, <<>>)
            ELSE Bracket(sk.off, nextToken(Drop(d, sk.off)))
    IN
    IF Len(d) = 0 THEN EachRet(-1, MalformedObjectError, <<>>)
    ELSE IF Len(ks) > 0 THEN Found(searchKeys(d, ks))
    ELSE arrayEachLoop(getfix, d, 1, <<>>)

ArrayEach(d, ks) == arrayEach(FALSE, d, ks)

\* The scan state of searchKeys: the position and the two depth counters.
SKState(i, level, keyLevel) ==
    [i |-> i, level |-> level, keyLevel |-> keyLevel,
     done |-> FALSE, off |-> -1, panic |-> FALSE]
SKDone(st, off) == [st EXCEPT !.done = TRUE, !.off = off]
SKFault(st) == [st EXCEPT !.done = TRUE, !.panic = TRUE]

\* A scan that goes into every array.
searchKeysInArrays(d, ks, st) == [st EXCEPT !.i = st.i + 1]

\* searchKeys, lines 178-207: the '[' case.
searchKeysArray(d, ks, st) ==
    LET Skip(arraySkip) ==
            IF arraySkip = -1 THEN SKDone(st, -1)
            ELSE [st EXCEPT !.i = st.i + arraySkip - 1 + 1]
        Inner(valueOffset, inner) ==
            IF inner.panic THEN SKFault(st)
            ELSE SKDone(st, st.i + valueOffset + inner.off)
        Element(found) ==
            Inner(found.offset, searchKeys(found.value, Drop(ks, st.level + 1)))
        Index(aIdx, ae) ==
            IF ae.panic THEN SKFault(st)
            ELSE IF aIdx < 0 \/ aIdx >= Len(ae.calls) THEN SKDone(st, -1)
            ELSE Element(ae.calls[aIdx + 1])
        Key(key) ==
            IF Len(key) = 0 THEN SKFault(st)
            ELSE IF At(key, 0) # "[" THEN Skip(blockEnd(Drop(d, st.i), "[", "]"))
            ELSE IF Len(key) - 1 < 1 THEN SKFault(st)
            ELSE Index(Atoi(Slice(key, 1, Len(key) - 1)), ArrayEach(Drop(d, st.i), <<>>))
    IN
    IF st.keyLevel # st.level THEN Skip(blockEnd(Drop(d, st.i), "[", "]"))
    ELSE IF st.level < 0 \/ st.level >= Len(ks) THEN SKFault(st)
    ELSE Key(ks[st.level + 1])

\* searchKeys, lines 128-170: the '"' case.
searchKeysString(d, ks, st) ==
    LET Match(i3, ku) ==
            IF ~ku.ok THEN SKDone(st, -1)
            ELSE IF st.level - 1 < 0 \/ st.level - 1 >= Len(ks) THEN SKFault(st)
            ELSE IF equalStr(ku.out, ks[st.level])
                 THEN IF st.keyLevel + 1 = Len(ks) THEN SKDone(st, i3 + 1)
                      ELSE [st EXCEPT !.i = i3 + 1, !.keyLevel = st.keyLevel + 1]
                 ELSE [st EXCEPT !.i = i3 + 1]
        Colon(key, keyEscaped, i3) ==
            IF At(d, i3) = ":" /\ st.keyLevel = st.level - 1
            THEN Match(i3, IF keyEscaped THEN Unescape(key) ELSE [ok |-> TRUE, out |-> key])
            ELSE [st EXCEPT !.i = i3 - 1 + 1]
        Value(keyBegin, keyEscaped, i2, valueOffset) ==
            IF valueOffset = -1 THEN SKDone(st, -1)
            ELSE Colon(Slice(d, keyBegin, i2 - 1), keyEscaped, i2 + valueOffset)
        Key(keyBegin, se) ==
            IF se.end = -1 THEN SKDone(st, -1)
            ELSE Value(keyBegin, se.escaped, keyBegin + se.end,
                       nextToken(Drop(d, keyBegin + se.end)))
    IN  Key(st.i + 1, stringEnd(Drop(d, st.i + 1)))

\* One iteration of the loop of searchKeys, lines 126-211.
searchKeysStep(d, ks, st) ==
    IF st.i >= Len(d) THEN SKDone(st, -1)
    ELSE IF At(d, st.i) = QUOTE THEN searchKeysString(d, ks, st)
    ELSE IF At(d, st.i) = "{" THEN [st EXCEPT !.i = st.i + 1, !.level = st.level + 1]
    ELSE IF At(d, st.i) = "}"
    THEN [st EXCEPT !.i = st.i + 1,
                    !.level = st.level - 1,
                    !.keyLevel = IF st.level - 1 = st.keyLevel
                                 THEN st.keyLevel - 1 ELSE st.keyLevel]
    ELSE IF At(d, st.i) = "[" THEN searchKeysArray(d, ks, st)
    ELSE [st EXCEPT !.i = st.i + 1]

RECURSIVE searchKeysLoop(_, _, _)
searchKeysLoop(d, ks, st) ==
    IF st.done THEN [off |-> st.off, panic |-> st.panic, hang |-> FALSE]
    ELSE searchKeysLoop(d, ks, searchKeysStep(d, ks, st))

\* searchKeys, lines 113-214.
searchKeys(d, ks) ==
    IF Len(ks) = 0 THEN SKRet(0)
    ELSE searchKeysLoop(d, ks, SKState(0, 0, 0))

----------------------------------------------------------------------------
(* Get, ArrayEach and searchKeys of src/parser.go.  A scan that never      *)
(* ends is the value hang = TRUE of a result.                              *)

EachRetP(e, calls) == [err |-> e, calls |-> calls, panic |-> FALSE, hang |-> FALSE]
EachStopP(panic, hang, calls) == [err |-> ErrNil, calls |-> calls, panic |-> panic, hang |-> hang]

\* Get, lines 371-451: the value that starts at or after offset0.  The
\* lines are those of get in part_003 with getfix false and tokenEnd of
\* this revision.
getValueP(d, offset0) ==
    LET Token(offset) ==
            IF At(d, offset) = QUOTE
            THEN getQuoted(FALSE, d, offset, stringEnd(Drop(d, offset + 1)).end)
            ELSE IF At(d, offset) = "["
            THEN getBlock(FALSE, d, offset, Array, MalformedArrayError,
                          blockEnd(Drop(d, offset), "[", "]"))
            ELSE IF At(d, offset) = "{"
            THEN getBlock(FALSE, d, offset, Object, MalformedObjectError,
                          blockEnd(Drop(d, offset), "{", "}"))
            ELSE getBare(FALSE, d, offset, tokenEndP(Drop(d, offset)))
        Skip(nO) ==
            IF nO = -1 THEN GetRet(<<>>, NotExist, -1, MalformedJsonError)
            ELSE Token(offset0 + nO)
    IN  Skip(nextToken(Drop(d, offset0)))

\* searchKeys, lines 179-200: skip index elements of the array.
RECURSIVE indexLoopP(_, _, _)
indexLoopP(d, i, index) ==
    LET Advance(i2, skipToToken) ==
            IF skipToToken = -1 THEN [i |-> i2, index |-> index, ok |-> FALSE]
            ELSE IF At(d, i2 + skipToToken) = "]"
            THEN [i |-> i2 + skipToToken, index |-> index, ok |-> TRUE]
            ELSE IF At(d, i2 + skipToToken) # ","
            THEN [i |-> i2 + skipToToken, index |-> index, ok |-> FALSE]
            ELSE indexLoopP(d, i2 + skipToToken + 1, index - 1)
        Element(g) ==
            IF g.offset = 0 THEN [i |-> i, index |-> index, ok |-> TRUE]
            ELSE IF g.err # ErrNil THEN [i |-> i, index |-> index, ok |-> FALSE]
            ELSE Advance(i + g.offset, nextToken(Drop(d, i + g.offset)))
    IN
    IF index <= 0 THEN [i |-> i, index |-> index, ok |-> TRUE]
    ELSE Element(getValueP(Drop(d, i), 0))

\* searchKeys, lines 170-216: the '[' case.
searchKeysArrayP(d, ks, st) ==
    LET After(lp, i2) ==
            IF lp.index # 0 THEN SKDone(st, -1)
            ELSE IF st.keyLevel + 1 = Len(ks) THEN SKDone(st, i2)
            ELSE [st EXCEPT !.i = i2 - 1 + 1,
                            !.level = st.level + 1,
                            !.keyLevel = st.keyLevel + 1]
        Elements(lp) ==
            IF ~lp.ok THEN SKDone(st, -1)
            ELSE After(lp, lp.i + nextToken(Drop(d, lp.i)))
        Index(num) ==
            IF ~AtoiOk(num) THEN SKDone(st, -1)
            ELSE Elements(indexLoopP(d, st.i + 1, Atoi(num)))
        Skip(arraySkip) == [st EXCEPT !.i = st.i + arraySkip - 1 + 1]
        Key(curKey) ==
            IF Len(curKey) = 0 THEN SKFault(st)
            ELSE IF At(curKey, 0) = "[" /\ Len(curKey) > 2 /\ At(curKey, Len(curKey) - 1) = "]"
            THEN Index(Slice(curKey, 1, Len(curKey) - 1))
            ELSE Skip(blockEnd(Drop(d, st.i), "[", "]"))
    IN
    IF st.keyLevel < 0 \/ st.keyLevel >= Len(ks) THEN SKFault(st)
    ELSE Key(ks[st.keyLevel + 1])

\* One iteration of the loop of searchKeys, lines 122-220.
searchKeysStepP(d, ks, st) ==
    IF st.i >= Len(d) THEN SKDone(st, -1)
    ELSE IF st.i < 0 THEN SKFault(st)
    ELSE IF At(d, st.i) = QUOTE THEN searchKeysString(d, ks, st)
    ELSE IF At(d, st.i) = "{" THEN [st EXCEPT !.i = st.i + 1, !.level = st.level + 1]
    ELSE IF At(d, st.i) = "}" THEN [st EXCEPT !.i = st.i + 1, !.level = st.level - 1]
    ELSE IF At(d, st.i) = "[" THEN searchKeysArrayP(d, ks, st)
    ELSE [st EXCEPT !.i = st.i + 1]

\* A scan that has not ended after this many iterations has moved back and
\* is repeating itself: a scan that only moves forward makes at most
\* Len(d) + 1 of them.
ScanFuel(d, ks) == 2 * (Len(d) + 2)

RECURSIVE searchKeysLoopP(_, _, _, _)
searchKeysLoopP(d, ks, st, fuel) ==
    IF st.done THEN [off |-> st.off, panic |-> st.panic, hang |-> FALSE]
    ELSE IF fuel = 0 THEN [off |-> st.off, panic |-> st.panic, hang |-> TRUE]
    ELSE searchKeysLoopP(d, ks, searchKeysStepP(d, ks, st), fuel - 1)

\* searchKeys, lines 113-223.
searchKeysP(d, ks) == searchKeysLoopP(d, ks, SKState(0, 0, 0), ScanFuel(d, ks))

\* Get, lines 365-369: sk is what searchKeys returned.
getFoundP(d, sk) ==
    IF sk.panic \/ sk.hang THEN GetStop(sk.panic, sk.hang)
    ELSE IF sk.off = -1 THEN GetRet(<<>>, NotExist, -1, KeyPathNotFoundError)
    ELSE IF sk.off < 0 \/ sk.off > Len(d) THEN GetStop(TRUE, FALSE)
    ELSE getValueP(d, sk.off)

\* Get, lines 364-452.
GetP(d, ks) ==
    IF Len(ks) > 0 THEN getFoundP(d, searchKeysP(d, ks))
    ELSE getValueP(d, 0)

\* ArrayEach, the loop of lines 482-514.
RECURSIVE ArrayEachLoopP(_, _, _)
ArrayEachLoopP(d, offset, calls) ==
    LET Advance(calls2, off2, skipToToken) ==
            IF skipToToken = -1 THEN EachRetP(MalformedArrayError, calls2)
            ELSE IF At(d, off2 + skipToToken) = "]" THEN EachRetP(ErrNil, calls2)
            ELSE IF At(d, off2 + skipToToken) # "," THEN EachRetP(MalformedArrayError, calls2)
            ELSE ArrayEachLoopP(d, off2 + skipToToken + 1, calls2)
        Visit(g, calls2) ==
            IF g.err # ErrNil THEN EachRetP(ErrNil, calls2)
            ELSE Advance(calls2, offset + g.offset, nextToken(Drop(d, offset + g.offset)))
        Element(g) ==
            IF g.offset = 0 THEN EachRetP(ErrNil, calls)
            ELSE Visit(g, IF g.dataType # NotExist
                          THEN Append(calls, Call(g.value, g.dataType, g.offset, g.err))
                          ELSE calls)
    IN
    IF offset < 0 \/ offset > Len(d) THEN EachStopP(TRUE, FALSE, calls)
    ELSE Element(getValueP(Drop(d, offset), 0))

\* ArrayEach, lines 455-480, then the loop.
ArrayEachP(d, ks) ==
    LET Bracket(off, nO) ==
            IF nO = -1 THEN EachRetP(MalformedJsonError, <<>>)
            ELSE IF At(d, off + nO) # "[" THEN EachRetP(MalformedArrayError, <<>>)
            ELSE ArrayEachLoopP(d, off + nO + 1, <<>>)
        Found(sk) ==
            IF sk.panic \/ sk.hang THEN EachStopP(sk.panic, sk.hang, <<>>)
            ELSE IF sk.off = -1 THEN EachRetP(KeyPathNotFoundError, <<>>)
            ELSE IF sk.off < 0 \/ sk.off > Len(d) THEN EachStopP(TRUE, FALSE, <<>>)
            ELSE Bracket(sk.off, nextToken(Drop(d, sk.off)))
    IN
    IF Len(d) = 0 THEN EachRetP(MalformedObjectError, <<>>)
    ELSE IF Len(ks) > 0 THEN Found(searchKeysP(d, ks))
    ELSE ArrayEachLoopP(d, 1, <<>>)

----------------------------------------------------------------------------
(* eachKey of src/unnamed/part_003, lines 216-406.                         *)
(* A flag word is the set of its bits; bitwiseFlags holds bits 0..62.      *)

FlagBits == 63

InFlagTable(k) == 0 <= k /\ k < FlagBits

sameTree(p1, p2) ==
    \A n \in 1..(IF Len(p2) < Len(p1) THEN Len(p2) ELSE Len(p1)) : p2[n] = p1[n]

MaxPathLen(ps) ==
    IF Len(ps) = 0 THEN 0
    ELSE CHOOSE m \in {Len(ps[n]) : n \in 1..Len(ps)} : \A n \in 1..Len(ps) : Len(ps[n]) <= m

KeyCall(idx, v, t, e) == [idx |-> idx, value |-> v, dataType |-> t, err |-> e]

EKState(maxPath) ==
    [i |-> 0, level |-> 0, pathsMatched |-> 0, pathFlags |-> {},
     pathsBuf |-> [n \in 1..maxPath |-> <<>>], calls |-> <<>>,
     done |-> FALSE, ret |-> -1, panic |-> FALSE]
EKDone(st, ret) == [st EXCEPT !.done = TRUE, !.ret = ret]
EKFault(st) == [st EXCEPT !.done = TRUE, !.panic = TRUE]

\* The result of a scan that ended in state st, or ran out of fuel there.
EKResult(st, hang) == [ret |-> st.ret, calls |-> st.calls, panic |-> st.panic, hang |-> hang]

\* eachKey, lines 299-320: the paths that end at this key, from path pi on.
\* match is -1 or the last path matched, as in the source.  Skipped(pj)
\* is the test of line 300 that makes the loop continue with the next
\* path; the read of the flag table is part of it.
RECURSIVE eachKeyMatch(_, _, _, _, _, _)
eachKeyMatch(getfix, d, ps, keyUnesc, pi, acc) ==
    LET st == acc.st
        Skipped(pj) ==
            \/ Len(ps[pj + 1]) # st.level
            \/ /\ InFlagTable(pj + 1)
               /\ \/ (pj + 1) \in st.pathFlags
                  \/ ~equalStr(keyUnesc, ps[pj + 1][st.level])
                  \/ ~sameTree(ps[pj + 1], SubSeq(st.pathsBuf, 1, st.level))
        After(pj, st2) ==
            IF st2.pathsMatched = Len(ps)
            THEN [st |-> EKDone(st2, st2.i), match |-> pj]
            ELSE eachKeyMatch(getfix, d, ps, keyUnesc, pj + 1, [st |-> st2, match |-> pj])
        Value(pj, g) ==
            IF g.panic THEN [acc EXCEPT !.st = EKFault(st)]
            ELSE After(pj, [st EXCEPT !.i = IF g.offset # -1 THEN st.i + 1 + g.offset
                                            ELSE st.i + 1,
                                      !.pathsMatched = st.pathsMatched + 1,
                                      !.pathFlags = st.pathFlags \cup {pj + 1},
                                      !.calls = Append(st.calls,
                                                       KeyCall(pj, g.value, g.dataType, g.err))])
        Take(pj) ==
            IF ~InFlagTable(pj + 1) THEN [acc EXCEPT !.st = EKFault(st)]
            ELSE IF st.i + 1 > Len(d) THEN [acc EXCEPT !.st = EKFault(st)]
            ELSE Value(pj, get(getfix, Drop(d, st.i + 1), <<>>))
        Rest(rest) == IF rest = {} THEN acc ELSE Take(Min(rest))
    IN
    IF st.done THEN acc
    ELSE Rest({pj \in pi..(Len(ps) - 1) : ~Skipped(pj)})

\* eachKey, lines 261-339: the '"' case.
eachKeyString(getfix, d, ps, maxPath, st) ==
    LET Resume(st4, i5) ==
            IF i5 < 0 \/ i5 >= Len(d) THEN EKFault(st4)
            ELSE IF At(d, i5) \in {"{", "}", "[", QUOTE}
                 THEN [st4 EXCEPT !.i = i5 - 1 + 1]
                 ELSE [st4 EXCEPT !.i = i5 + 1]
        Unmatched(st4, i5) ==
            IF At(d, i5) = "{"
            THEN Resume(st4, i5 + blockEnd(Drop(d, i5), "{", "}") + 1)
            ELSE Resume(st4, i5)
        Matched(m) ==
            IF m.st.done THEN m.st
            ELSE IF m.match # -1 THEN Resume(m.st, m.st.i)
            ELSE Unmatched(m.st, m.st.i + nextToken(Drop(d, m.st.i + 1)))
        Key(i3, ku) ==
            IF ~ku.ok THEN EKDone(st, -1)
            ELSE IF maxPath < st.level THEN Matched([st |-> [st EXCEPT !.i = i3], match |-> -1])
            ELSE IF st.level - 1 < 0 THEN EKFault(st)
            ELSE Matched(eachKeyMatch(getfix, d, ps, ku.out, 0,
                                      [st |-> [st EXCEPT !.i = i3,
                                                         !.pathsBuf[st.level] = ku.out],
                                       match |-> -1]))
        Colon(key, keyEscaped, i3) ==
            IF At(d, i3) # ":" THEN [st EXCEPT !.i = i3 - 1 + 1]
            ELSE Key(i3, IF keyEscaped THEN Unescape(key) ELSE [ok |-> TRUE, out |-> key])
        Value(keyBegin, keyEscaped, i2, valueOffset) ==
            IF valueOffset = -1 THEN EKDone(st, -1)
            ELSE Colon(Slice(d, keyBegin, i2 - 1), keyEscaped, i2 + valueOffset)
        Quoted(keyBegin, se) ==
            IF se.end = -1 THEN EKDone(st, -1)
            ELSE Value(keyBegin, se.escaped, keyBegin + se.end,
                       nextToken(Drop(d, keyBegin + se.end)))
    IN  Quoted(st.i + 1, stringEnd(Drop(d, st.i + 1)))

\* eachKey, lines 347-355: what path pi asks of the array that opens here.
eachKeyArrayProbe(ps, st, pi) ==
    LET p == ps[pi + 1]
        level == st.level
    IN
    IF Len(p) < level + 1 THEN "skip"
    ELSE IF ~InFlagTable(pi + 1) THEN "panic"
    ELSE IF (pi + 1) \in st.pathFlags THEN "skip"
    ELSE IF level < 0 THEN "panic"
    ELSE IF Len(p[level + 1]) = 0 THEN "panic"
    ELSE IF At(p[level + 1], 0) # "[" THEN "skip"
    ELSE IF ~sameTree(p, SubSeq(st.pathsBuf, 1, level)) THEN "skip"
    ELSE IF Len(p[level + 1]) - 1 < 1 THEN "panic"
    ELSE IF ~InFlagTable(Atoi(Slice(p[level + 1], 1, Len(p[level + 1]) - 1)) + 1) THEN "panic"
    ELSE "take"

PathIndex(p, level) == Atoi(Slice(p[level], 1, Len(p[level]) - 1))

\* eachKey, lines 363-379: the visitor of ArrayEach at element curIdx, from
\* path pi on.  level is the level inside the array.
RECURSIVE eachKeyElem(_, _, _, _, _, _, _, _)
eachKeyElem(getfix, ps, level, pIdxFlags, el, curIdx, pi, st) ==
    LET Flagged(st2) ==
            [st2 EXCEPT !.pathsMatched = st.pathsMatched + 1,
                        !.pathFlags = st.pathFlags \cup {pi + 1}]
        Value(g) ==
            IF g.panic THEN EKFault(st)
            ELSE eachKeyElem(getfix, ps, level, pIdxFlags, el, curIdx, pi + 1,
                             Flagged([st EXCEPT !.calls =
                                 Append(st.calls, KeyCall(pi, g.value, g.dataType, g.err))]))
        Found(of) ==
            IF of.panic THEN EKFault(st)
            ELSE IF of.off = -1
            THEN eachKeyElem(getfix, ps, level, pIdxFlags, el, curIdx, pi + 1, Flagged(st))
            ELSE IF of.off < 0 \/ of.off > Len(el.value) THEN EKFault(st)
            ELSE Value(get(getfix, Drop(el.value, of.off), <<>>))
    IN
    IF st.done \/ pi >= Len(ps) THEN st
    ELSE IF (pi + 1) \notin pIdxFlags \/ curIdx # PathIndex(ps[pi + 1], level)
    THEN eachKeyElem(getfix, ps, level, pIdxFlags, el, curIdx, pi + 1, st)
    ELSE Found(searchKeys(el.value, Drop(ps[pi + 1], level)))

\* eachKey, lines 361-383: the elements ArrayEach visits, from element n on.
RECURSIVE eachKeyElems(_, _, _, _, _, _, _, _)
eachKeyElems(getfix, ps, level, arrIdxFlags, pIdxFlags, els, n, st) ==
    IF st.done \/ n > Len(els) THEN st
    ELSE IF ~InFlagTable(n) THEN EKFault(st)
    ELSE eachKeyElems(getfix, ps, level, arrIdxFlags, pIdxFlags, els, n + 1,
                      IF n \in arrIdxFlags
                      THEN eachKeyElem(getfix, ps, level, pIdxFlags, els[n], n - 1, 0, st)
                      ELSE st)

\* eachKey, lines 344-397: the '[' case.
eachKeyArray(getfix, d, ps, st) ==
    LET Skip(arraySkip) ==
            IF arraySkip = -1 THEN EKDone(st, -1)
            ELSE [st EXCEPT !.i = st.i + arraySkip - 1 + 1]
        After(ae, st2) ==
            IF st2.done THEN st2
            ELSE IF st2.pathsMatched = Len(ps) THEN EKDone(st2, st.i)
            ELSE [st2 EXCEPT !.i = st.i + ae.offset - 1 + 1]
        Elements(arrIdxFlags, pIdxFlags, ae) ==
            IF ae.panic THEN EKFault(st)
            ELSE After(ae, eachKeyElems(getfix, ps, st.level + 1, arrIdxFlags, pIdxFlags,
                                        ae.calls, 1, [st EXCEPT !.level = st.level + 1]))
        Flags(arrIdxFlags, pIdxFlags) ==
            IF arrIdxFlags # {}
            THEN Elements(arrIdxFlags, pIdxFlags, ArrayEach(Drop(d, st.i), <<>>))
            ELSE Skip(blockEnd(Drop(d, st.i), "[", "]"))
        Taken(taken) ==
            Flags({PathIndex(ps[pi + 1], st.level + 1) + 1 : pi \in taken},
                  {pi + 1 : pi \in taken})
        Probes(probes) ==
            IF \E pi \in 0..(Len(ps) - 1) : probes[pi] = "panic"
            THEN EKFault(st)
            ELSE Taken({pi \in 0..(Len(ps) - 1) : probes[pi] = "take"})
    IN  Probes([pi \in 0..(Len(ps) - 1) |-> eachKeyArrayProbe(ps, st, pi)])

\* One iteration of the loop of eachKey, lines 259-403.
eachKeyStep(getfix, d, ps, maxPath, st) ==
    IF st.i >= Len(d) THEN EKDone(st, -1)
    ELSE IF st.i < 0 THEN EKFault(st)
    ELSE IF At(d, st.i) = QUOTE THEN eachKeyString(getfix, d, ps, maxPath, st)
    ELSE IF At(d, st.i) = "{" THEN [st EXCEPT !.i = st.i + 1, !.level = st.level + 1]
    ELSE IF At(d, st.i) = "}" THEN [st EXCEPT !.i = st.i + 1, !.level = st.level - 1]
    ELSE IF At(d, st.i) = "[" THEN eachKeyArray(getfix, d, ps, st)
    ELSE IF At(d, st.i) = "]" THEN [st EXCEPT !.i = st.i + 1, !.level = st.level - 1]
    ELSE [st EXCEPT !.i = st.i + 1]

RECURSIVE eachKeyLoop(_, _, _, _, _, _)
eachKeyLoop(getfix, d, ps, maxPath, st, fuel) ==
    IF st.done THEN EKResult(st, FALSE)
    ELSE IF fuel = 0 THEN EKResult(st, TRUE)
    ELSE eachKeyLoop(getfix, d, ps, maxPath, eachKeyStep(getfix, d, ps, maxPath, st), fuel - 1)

\* eachKey, lines 244-406.
eachKey(getfix, d, ps) ==
    eachKeyLoop(getfix, d, ps, MaxPathLen(ps), EKState(MaxPathLen(ps)), ScanFuel(d, ps))

EachKey(d, ps) == eachKey(FALSE, d, ps)

----------------------------------------------------------------------------
(* EachKey of src/parser.go, lines 225-330 *)

EKStateP ==
    [i |-> 0, level |-> 0, pathsMatched |-> 0, pathFlags |-> {}, calls |-> <<>>,
     done |-> FALSE, ret |-> -1, panic |-> FALSE]

\* EachKey, lines 277-302: the paths this key belongs to, from path pi on.
\* Skipped(pj) is what makes the loop continue with the next path at
\* lines 278 and 282.
RECURSIVE EachKeyMatchP(_, _, _, _, _)
EachKeyMatchP(d, ps, keyUnesc, pi, acc) ==
    LET st == acc.st
        Skipped(pj) ==
            \/ Len(ps[pj + 1]) < st.level
            \/ /\ InFlagTable(pj)
               /\ \/ pj \in st.pathFlags
                  \/ st.level - 1 >= 0 /\ ~equalStr(keyUnesc, ps[pj + 1][st.level])
        After(pj, st2) ==
            IF st2.pathsMatched = Len(ps)
            THEN [st |-> EKDone(st2, st2.i), match |-> TRUE]
            ELSE EachKeyMatchP(d, ps, keyUnesc, pj + 1, [st |-> st2, match |-> TRUE])
        Value(pj, g) ==
            After(pj, [st EXCEPT !.i = IF g.offset # -1 THEN st.i + 1 + g.offset ELSE st.i + 1,
                                 !.pathsMatched = st.pathsMatched + 1,
                                 !.pathFlags = st.pathFlags \cup {pj},
                                 !.calls = Append(st.calls,
                                                  KeyCall(pj, g.value, g.dataType, g.err))])
        Take(pj) ==
            IF ~InFlagTable(pj) THEN [acc EXCEPT !.st = EKFault(st)]
            ELSE IF st.level - 1 < 0 THEN [acc EXCEPT !.st = EKFault(st)]
            ELSE IF Len(ps[pj + 1]) # st.level
            THEN EachKeyMatchP(d, ps, keyUnesc, pj + 1, [acc EXCEPT !.match = TRUE])
            ELSE IF st.i + 1 > Len(d) THEN [acc EXCEPT !.st = EKFault(st)]
            ELSE Value(pj, getValueP(Drop(d, st.i + 1), 0))
        Rest(rest) == IF rest = {} THEN acc ELSE Take(Min(rest))
    IN
    IF st.done THEN acc
    ELSE Rest({pj \in pi..(Len(ps) - 1) : ~Skipped(pj)})

\* EachKey, lines 242-315: the '"' case.
EachKeyStringP(d, ps, st) ==
    LET Unmatched(st4, i5) ==
            IF At(d, i5) = "{"
            THEN [st4 EXCEPT !.i = i5 + blockEnd(Drop(d, i5), "{", "}") + 1 + 1]
            ELSE [st4 EXCEPT !.i = i5 + 1]
        Matched(m) ==
            IF m.st.done THEN m.st
            ELSE IF m.match THEN [m.st EXCEPT !.i = m.st.i + 1]
            ELSE Unmatched(m.st, m.st.i + nextToken(Drop(d, m.st.i + 1)))
        Key(i3, ku) ==
            IF ~ku.ok THEN EKDone(st, -1)
            ELSE Matched(EachKeyMatchP(d, ps, ku.out, 0,
                                       [st |-> [st EXCEPT !.i = i3], match |-> FALSE]))
        Colon(key, keyEscaped, i3) ==
            IF At(d, i3) # ":" THEN [st EXCEPT !.i = i3 - 1 + 1]
            ELSE Key(i3, IF keyEscaped THEN Unescape(key) ELSE [ok |-> TRUE, out |-> key])
        Value(keyBegin, keyEscaped, i2, valueOffset) ==
            IF valueOffset = -1 THEN EKDone(st, -1)
            ELSE Colon(Slice(d, keyBegin, i2 - 1), keyEscaped, i2 + valueOffset)
        Quoted(keyBegin, se) ==
            IF se.end = -1 THEN EKDone(st, -1)
            ELSE Value(keyBegin, se.escaped, keyBegin + se.end,
                       nextToken(Drop(d, keyBegin + se.end)))
    IN  Quoted(st.i + 1, stringEnd(Drop(d, st.i + 1)))

\* One iteration of the loop of EachKey, lines 240-327.
EachKeyStepP(d, ps, st) ==
    IF st.i >= Len(d) THEN EKDone(st, -1)
    ELSE IF st.i < 0 THEN EKFault(st)
    ELSE IF At(d, st.i) = QUOTE THEN EachKeyStringP(d, ps, st)
    ELSE IF At(d, st.i) = "{" THEN [st EXCEPT !.i = st.i + 1, !.level = st.level + 1]
    ELSE IF At(d, st.i) = "}" THEN [st EXCEPT !.i = st.i + 1, !.level = st.level - 1]
    ELSE IF At(d, st.i) = "["
    THEN [st EXCEPT !.i = st.i + blockEnd(Drop(d, st.i), "[", "]") - 1 + 1]
    ELSE [st EXCEPT !.i = st.i + 1]

RECURSIVE EachKeyLoopP(_, _, _, _)
EachKeyLoopP(d, ps, st, fuel) ==
    IF st.done THEN EKResult(st, FALSE)
    ELSE IF fuel = 0 THEN EKResult(st, TRUE)
    ELSE EachKeyLoopP(d, ps, EachKeyStepP(d, ps, st), fuel - 1)

\* EachKey, lines 233-330.
EachKeyP(d, ps) == EachKeyLoopP(d, ps, EKStateP, ScanFuel(d, ps))

----------------------------------------------------------------------------
(* objectEach of src/unnamed/part_003, lines 630-738.  The visitor is the  *)
(* caller's: what it returns is an input of every iteration.               *)

VisitorError == "visitor error"
VisitorReturns == {ErrNil, VisitorError}

\* A visitor call with the key and the value exchanged.
MemberCallSwapped(k, v, t, o, ret) ==
    [key |-> v, value |-> k, dataType |-> t, offset |-> o, ret |-> ret]

MemberCall(k, v, t, o, ret) ==
    [key |-> k, value |-> v, dataType |-> t, offset |-> o, ret |-> ret]

\* The state of objectEach between two iterations of its loop.
OEState(offset) ==
    [offset |-> offset, calls |-> <<>>, err |-> ErrNil,
     done |-> FALSE, panic |-> FALSE, hang |-> FALSE]
OEReturn(st, e) == [st EXCEPT !.done = TRUE, !.err = e]
OEFault(st) == [st EXCEPT !.done = TRUE, !.panic = TRUE]

\* objectEach, lines 636-661: up to the first token inside the object.
objectEachEnter(d, ks) ==
    LET First(offset, off) ==
            IF off = -1 THEN OEReturn(OEState(offset), MalformedJsonError)
            ELSE IF At(d, offset + off) = "}" THEN OEReturn(OEState(offset + off), ErrNil)
            ELSE OEState(offset + off)
        Brace(offset, off) ==
            IF off = -1 THEN OEReturn(OEState(offset), MalformedObjectError)
            ELSE IF At(d, offset + off) # "{"
            THEN OEReturn(OEState(offset + off), MalformedObjectError)
            ELSE First(offset + off + 1, nextToken(Drop(d, offset + off + 1)))
        Found(sk) ==
            IF sk.panic THEN OEFault(OEState(0))
            ELSE IF sk.off = -1 THEN OEReturn(OEState(0), KeyPathNotFoundError)
            ELSE IF sk.off < 0 \/ sk.off > Len(d) THEN OEFault(OEState(0))
            ELSE Brace(sk.off, nextToken(Drop(d, sk.off)))
    IN
    IF Len(ks) > 0 THEN Found(searchKeys(d, ks))
    ELSE Brace(0, nextToken(Drop(d, 0)))

\* objectEach whose step 4 takes every byte but a comma for the end.
objectEachCommaLax(d, st, off) ==
    IF off = -1 THEN OEReturn(st, MalformedArrayError)
    ELSE IF At(d, st.offset + off) = ","
    THEN IF nextToken(Drop(d, st.offset + off + 1)) = -1
         THEN OEReturn([st EXCEPT !.offset = st.offset + off + 1], MalformedArrayError)
         ELSE [st EXCEPT !.offset = st.offset + off + 1
                                    + nextToken(Drop(d, st.offset + off + 1))]
    ELSE OEReturn([st EXCEPT !.offset = st.offset + off], ErrNil)

\* objectEach, lines 714-734: after a member, to the next key or the end.
objectEachComma(d, st, off) ==
    LET After(st2, off2) ==
            IF off2 = -1 THEN OEReturn(st2, MalformedArrayError)
            ELSE [st2 EXCEPT !.offset = st2.offset + off2]
    IN
    IF off = -1 THEN OEReturn(st, MalformedArrayError)
    ELSE IF At(d, st.offset + off) = "}"
    THEN OEReturn([st EXCEPT !.offset = st.offset + off], ErrNil)
    ELSE IF At(d, st.offset + off) = ","
    THEN After([st EXCEPT !.offset = st.offset + off + 1],
               nextToken(Drop(d, st.offset + off + 1)))
    ELSE OEReturn([st EXCEPT !.offset = st.offset + off], MalformedObjectError)

\* objectEach with a visitor whose error is dropped.
objectEachVisitIgnored(d, st, ret) ==
    objectEachComma(d, st, nextToken(Drop(d, st.offset)))

\* objectEach, lines 708-712: st is the state after the visitor's call,
\* ret what the visitor returned.
objectEachVisit(d, st, ret) ==
    IF ret # ErrNil THEN OEReturn(st, ret)
    ELSE objectEachComma(d, st, nextToken(Drop(d, st.offset)))

\* objectEach, lines 664-737: one iteration of the loop; ret is what the
\* visitor returns if this iteration calls it.
objectEachMember(getfix, d, st, ret) ==
    LET Value(key, offset, g) ==
            IF g.panic THEN OEFault(st)
            ELSE IF g.err # ErrNil THEN OEReturn([st EXCEPT !.offset = offset], g.err)
            ELSE objectEachVisit(d,
                                 [st EXCEPT !.offset = offset + g.offset,
                                            !.calls = Append(st.calls,
                                                MemberCall(key, g.value, g.dataType,
                                                           offset + g.offset, ret))],
                                 ret)
        Colon(key, offset, off) ==
            IF off = -1 THEN OEReturn([st EXCEPT !.offset = offset], MalformedJsonError)
            ELSE IF At(d, offset + off) # ":"
            THEN OEReturn([st EXCEPT !.offset = offset + off], MalformedJsonError)
            ELSE Value(key, offset + off + 1, get(getfix, Drop(d, offset + off + 1), <<>>))
        Unescaped(ku, offset) ==
            IF ~ku.ok THEN OEReturn([st EXCEPT !.offset = offset], MalformedStringEscapeError)
            ELSE Colon(ku.out, offset, nextToken(Drop(d, offset)))
        Key(offset, se) ==
            IF se.end = -1 THEN OEReturn([st EXCEPT !.offset = offset], MalformedJsonError)
            ELSE Unescaped(IF se.escaped
                           THEN Unescape(Slice(d, offset, offset + se.end - 1))
                           ELSE [ok |-> TRUE, out |-> Slice(d, offset, offset + se.end - 1)],
                           offset + se.end)
    IN
    IF st.offset >= Len(d) THEN OEReturn(st, MalformedObjectError)
    ELSE IF At(d, st.offset) = "}" THEN OEReturn(st, ErrNil)
    ELSE IF At(d, st.offset) # QUOTE THEN OEReturn(st, MalformedObjectError)
    ELSE Key(st.offset + 1, stringEnd(Drop(d, st.offset + 1)))

----------------------------------------------------------------------------
(* Inputs: JSON documents as trees, and their bytes *)

MaxNodes == 3
MaxPath == 2
MaxRaw == 3

KeyNames == {<<"a">>, <<"b">>}

Leaf(kind, lit) == [kind |-> kind, lit |-> lit]
ArrNode(els) == [kind |-> Array, els |-> els]
ObjNode(mem) == [kind |-> Object, mem |-> mem]

Num1 == Leaf(Number, <<"1">>)
StrS == Leaf(String, <<QUOTE, "s", QUOTE>>)
Leaves == {Num1, StrS, Leaf(Boolean, trueLiteral), Leaf(Null, nullLiteral)}

RECURSIVE Nodes(_)
RECURSIVE SumNodes(_)
SumNodes(ts) == IF Len(ts) = 0 THEN 0 ELSE Nodes(Head(ts)) + SumNodes(Tail(ts))
Nodes(t) ==
    IF t.kind = Array THEN 1 + SumNodes(t.els)
    ELSE IF t.kind = Object THEN 1 + SumNodes([n \in 1..Len(t.mem) |-> t.mem[n][2]])
    ELSE 1

\* Every tree of at most n nodes, and every list of trees of at most n
\* nodes together.
RECURSIVE Trees(_)
RECURSIVE Forests(_)
Forests(n) ==
    {<<>>} \cup UNION {{<<t>> \o f : f \in Forests(n - Nodes(t))} : t \in Trees(n)}
Trees(n) ==
    IF n <= 0 THEN {}
    ELSE Leaves
         \cup {ArrNode(f) : f \in Forests(n - 1)}
         \cup UNION {{ObjNode([k \in 1..Len(f) |-> <<ks[k], f[k]>>]) :
                        ks \in [1..Len(f) -> KeyNames]} : f \in Forests(n - 1)}

\* The bytes of a tree; sp is the whitespace written before every token
\* and at the end of the text (<<>> for the compact form).
RECURSIVE Concat(_)
Concat(ss) == IF Len(ss) = 0 THEN <<>> ELSE Head(ss) \o Concat(Tail(ss))

RECURSIVE Bytes(_, _)
Bytes(t, sp) ==
    IF t.kind = Array
    THEN sp \o <<"[">>
         \o Concat([n \in 1..Len(t.els) |->
                      (IF n > 1 THEN sp \o <<",">> ELSE <<>>) \o Bytes(t.els[n], sp)])
         \o sp \o <<"]">>
    ELSE IF t.kind = Object
    THEN sp \o <<"{">>
         \o Concat([n \in 1..Len(t.mem) |->
                      (IF n > 1 THEN sp \o <<",">> ELSE <<>>)
                      \o sp \o <<QUOTE>> \o t.mem[n][1] \o <<QUOTE>> \o sp \o <<":">>
                      \o Bytes(t.mem[n][2], sp)])
         \o sp \o <<"}">>
    ELSE sp \o t.lit

\* A style is the whitespace sp between tokens, and whether the text also
\* starts and ends with it.
Style(sp, lead) == [sp |-> sp, lead |-> lead]
Styles ==
    {Style(<<>>, FALSE), Style(<<" ">>, FALSE), Style(<<" ">>, TRUE),
     Style(<<"\n">>, FALSE)}

Text(t, st) ==
    IF st.lead THEN Bytes(t, st.sp) \o st.sp
    ELSE Drop(Bytes(t, st.sp), Len(st.sp))

\* Path segments: the literal keys and the index segments [0], [1].
Idx(c) == <<"[", c, "]">>
Segments == KeyNames \cup {Idx("0"), Idx("1")}
Paths == UNION {[1..n -> Segments] : n \in 0..MaxPath}

\* Documents of the repository's tests (parser_test.go), with their keys
\* renamed to a and b; each is larger than MaxNodes.
Obj1(k, v) == ObjNode(<<<<k, v>>>>)
Obj2(k1, v1, k2, v2) == ObjNode(<<<<k1, v1>>, <<k2, v2>>>>)
A == <<"a">>
B == <<"b">>
TestDocs ==
    {Obj2(A, Num1, B, Obj1(B, Num1)),
     Obj2(A, Obj1(A, Num1), B, Obj2(A, StrS, B, ArrNode(<<Num1, StrS>>))),
     Obj1(A, ArrNode(<<Obj1(B, Num1)>>)),
     Obj2(A, ArrNode(<<Obj1(B, Num1), Obj1(B, StrS), Num1>>), B, Obj1(B, ArrNode(<<Num1, StrS>>))),
     Obj2(A, Obj1(B, Num1), B, StrS),
     ArrNode(<<ArrNode(<<Num1>>), Obj1(A, StrS), Leaf(Null, nullLiteral)>>),
     Obj2(A, Leaf(String, <<QUOTE, "]", BSL, QUOTE, QUOTE>>), B, ArrNode(<<Leaf(Boolean, falseLiteral)>>))}

\* Arbitrary buffers: every byte string of at most MaxRaw bytes, every
\* proper prefix of a small document, and the malformed buffers of
\* parser_test.go and parser_error_test.go.
RawBytes == {"{", "}", "[", "]", QUOTE, ":", ",", " ", "a", "1"}
Raws == UNION {[1..n -> RawBytes] : n \in 0..MaxRaw}
Str(k) == <<QUOTE>> \o k \o <<QUOTE>>
UnclosedArray == <<"{">> \o Str(A) \o <<":", "[", ",", " ">> \o Str(B) \o <<":", "1", "}">>
Damaged ==
    {UnclosedArray,
     <<"{">> \o Str(A) \o <<":">>,
     <<"{", "}", "}">> \o Str(A) \o <<":", "1">>,
     Str(A) \o <<":", "1">>,
     <<"{">> \o Str(A) \o <<":", "1">>,
     <<"{">> \o Str(A) \o <<":", "[", "1", ",", "x", "]", "}">>,
     <<"[", "1", ",", " ", QUOTE, "a">>,
     <<"[", "1", ",", "x", "]">>,
     <<"{">> \o Str(A) \o <<":", QUOTE, "a", BSL, QUOTE, "}">>,
     <<"{">> \o Str(<<BSL, "n">>) \o <<":", "1", "}">>}
Prefixes(d) == {SubSeq(d, 1, n) : n \in 0..(Len(d) - 1)}
Truncated == UNION {Prefixes(Text(t, Style(<<>>, FALSE))) : t \in Trees(MaxNodes)}
RawSegments == {A, <<>>, <<"[">>, Idx("0"), Idx("a")}
RawPaths == UNION {[1..n -> RawSegments] : n \in 0..MaxPath}

\* Bare tokens: the literals, numbers, and the near-misses of the tests
\* (`{"a": txyz}`, `{"a": fwxyz}`).
BareTokens ==
    {trueLiteral, falseLiteral, nullLiteral,
     <<"t", "x", "y", "z">>, <<"f", "w", "x", "y", "z">>,
     <<"t", "r", "u">>, <<"t", "r", "u", "e", "e">>, <<"f">>,
     <<"n", "u", "l">>, <<"n", "u", "l", "l", "l">>, <<"u">>,
     <<"1">>, <<"-", "1">>, <<"-">>, <<"1", "x">>, <<"x">>}

NoTree == Leaf(NotExist, <<>>)
WellFormed(t, st) == [wf |-> TRUE, tree |-> t, style |-> st]
Arbitrary == [wf |-> FALSE, tree |-> NoTree, style |-> Style(<<>>, FALSE)]
Bare(tok) == [wf |-> FALSE, tree |-> Leaf(NotExist, tok), style |-> Style(<<>>, FALSE)]

\* ---------------------------------------------------------------------
\* The state machine.  A run is one call: Init draws the buffer and the
\* path (or the list of paths), and one action applies one exported
\* operation to them and records what it returned.
\* ---------------------------------------------------------------------
NoResult == [op |-> "none"]

InitDoc ==
    \/ \E t \in Trees(MaxNodes) \cup TestDocs, st \in Styles :
          /\ doc = WellFormed(t, st)
          /\ data = Text(t, st)
          /\ keys \in Paths
    \/ /\ doc = Arbitrary
       /\ data \in Raws \cup Truncated \cup Damaged
       /\ keys \in RawPaths
    \/ /\ doc = Arbitrary
       /\ data \in Damaged
       /\ keys = <<B>>
    \/ \E tok \in BareTokens :
          /\ doc = Bare(tok)
          /\ \/ /\ data \in {tok, tok \o <<" ">>, tok \o <<",">>}
                /\ keys = <<>>
             \/ /\ data = <<"{">> \o Str(A) \o <<":", " ">> \o tok \o <<"}">>
                /\ keys = <<A>>

Init ==
    /\ InitDoc
    /\ paths = <<>>
    /\ pc = "ready"
    /\ res = NoResult

Return(op, r) ==
    /\ pc' = op
    /\ res' = r
    /\ UNCHANGED <<data, keys, paths, doc>>

CallGet == pc = "ready" /\ Return("Get", Get(data, keys))
CallGetP == pc = "ready" /\ Return("GetP", GetP(data, keys))
\* searchKeys is internal: Get and ArrayEach call it with a non-empty path.
CallSearchKeys == pc = "ready" /\ Len(keys) > 0 /\ Return("searchKeys", searchKeys(data, keys))
CallSearchKeysP == pc = "ready" /\ Len(keys) > 0 /\ Return("searchKeysP", searchKeysP(data, keys))

Next ==
    \/ CallGet
    \/ CallGetP
    \/ CallSearchKeys
    \/ CallSearchKeysP

Spec == Init /\ [][Next]_vars

\* The same buffers and paths, given to ArrayEach.
CallArrayEach == pc = "ready" /\ Return("ArrayEach", ArrayEach(data, keys))
CallArrayEachP == pc = "ready" /\ Return("ArrayEachP", ArrayEachP(data, keys))

NextArray ==
    \/ CallArrayEach
    \/ CallArrayEachP

SpecArray == Init /\ [][NextArray]_vars

\* EachKey takes a list of paths: one or two of them.
PathLists(ps) == {<<p>> : p \in ps} \cup {<<p, q>> : p \in ps, q \in ps}
KeyStyles == {Style(<<>>, FALSE), Style(<<" ">>, TRUE)}
RawKeyPaths == {<<A>>, <<B>>, <<A, B>>, <<A, Idx("0")>>}

InitKeys ==
    /\ \/ \E t \in Trees(MaxNodes) \cup TestDocs, st \in KeyStyles :
              /\ doc = WellFormed(t, st)
              /\ data = Text(t, st)
              /\ paths \in PathLists(Paths \ {<<>>})
       \/ /\ doc = Arbitrary
          /\ data \in Truncated \cup Damaged
          /\ paths \in PathLists(RawKeyPaths)
    /\ keys = <<>>
    /\ pc = "ready"
    /\ res = NoResult

CallEachKey == pc = "ready" /\ Return("EachKey", EachKey(data, paths))
CallEachKeyP == pc = "ready" /\ Return("EachKeyP", EachKeyP(data, paths))

NextKeys ==
    \/ CallEachKey
    \/ CallEachKeyP

SpecKeys == InitKeys /\ [][NextKeys]_vars

\* ---------------------------------------------------------------------
\* EachKey with many paths, as TestKeyCount builds them: path number i is
\* the one key "key<i>", and the document is an object with such keys.
\* ---------------------------------------------------------------------
Decimal(i) ==
    LET digit == <<"0", "1", "2", "3", "4", "5", "6", "7", "8", "9">>
    IN  IF i < 10 THEN <<digit[i + 1]>>
        ELSE <<digit[(i \div 10) + 1], digit[(i % 10) + 1]>>

CountKey(i) == <<"k", "e", "y">> \o Decimal(i)
CountPaths(n) == [i \in 1..n |-> <<CountKey(i - 1)>>]
CountDoc(m) == Obj1(CountKey(m), Leaf(String, <<QUOTE>> \o Decimal(m) \o <<QUOTE>>))

InitCount ==
    /\ \E n \in 1..FlagBits, m \in 0..(FlagBits - 1) :
          /\ doc = WellFormed(CountDoc(m), Style(<<>>, FALSE))
          /\ data = Text(CountDoc(m), Style(<<>>, FALSE))
          /\ paths = CountPaths(n)
    /\ keys = <<>>
    /\ pc = "ready"
    /\ res = NoResult

SpecCount == InitCount /\ [][NextKeys]_vars

\* ---------------------------------------------------------------------
\* ObjectEach, one iteration of its loop per step.  The broken objects
\* are well-formed objects with one defect: kind says which, at is the
\* member that has it.
\* ---------------------------------------------------------------------
Defects ==
    {"nobrace", "barekey", "openkey", "nocolon", "novalue", "badvalue",
     "nocomma", "twocommas", "truncated"}

\* The bytes of the object with members mem and the defect kind at member
\* at, in the layout of Bytes.
BrokenBytes(mem, sp, kind, at) ==
    LET Is(k, n) == kind = k /\ at = n
        Member(n) ==
            (IF n = 1 THEN <<>>
             ELSE IF Is("nocomma", n) THEN <<>>
             ELSE IF Is("twocommas", n) THEN sp \o <<",">> \o sp \o <<",">>
             ELSE sp \o <<",">>)
            \o sp
            \o (IF Is("barekey", n) THEN mem[n][1] ELSE Str(mem[n][1]))
            \o (IF Is("nocolon", n) THEN <<>> ELSE sp \o <<":">>)
            \o (IF Is("novalue", n) THEN <<>>
                ELSE IF Is("badvalue", n) THEN sp \o <<"x">>
                ELSE Bytes(mem[n][2], sp))
        Cut(n) == sp \o <<QUOTE>> \o mem[n][1]
    IN
    (IF kind = "nobrace" THEN <<>> ELSE sp \o <<"{">>)
    \o (IF kind = "openkey"
        THEN Concat([n \in 1..(at - 1) |-> Member(n) \o (IF n = at - 1 THEN sp \o <<",">> ELSE <<>>)])
             \o Cut(at)
        ELSE Concat([n \in 1..Len(mem) |-> Member(n)]) \o sp \o <<"}">>)

BrokenText(mem, st, kind, at) ==
    IF st.lead THEN BrokenBytes(mem, st.sp, kind, at) \o st.sp
    ELSE Drop(BrokenBytes(mem, st.sp, kind, at), Len(st.sp))

Broken(t, st, kind, at) ==
    [wf |-> FALSE, tree |-> t, style |-> st, damage |-> kind, at |-> at]

Objects == {t \in Trees(MaxNodes) : t.kind = Object /\ Len(t.mem) > 0}
ObjectStyles == {Style(<<>>, FALSE), Style(<<" ">>, FALSE), Style(<<" ">>, TRUE)}

InitBroken ==
    \E t \in Objects, st \in ObjectStyles :
       \/ \E kind \in Defects \ {"truncated", "nocomma", "twocommas"}, at \in 1..Len(t.mem) :
             /\ doc = Broken(t, st, kind, at)
             /\ data = BrokenText(t.mem, st, kind, at)
       \/ \E kind \in {"nocomma", "twocommas"}, at \in 2..Len(t.mem) :
             /\ doc = Broken(t, st, kind, at)
             /\ data = BrokenText(t.mem, st, kind, at)
       \/ /\ doc = Broken(t, Style(st.sp, FALSE), "truncated", 0)
          /\ data \in Prefixes(Text(t, Style(st.sp, FALSE)))

InitObject ==
    /\ \/ InitDoc
       \/ InitBroken /\ keys = <<>>
    /\ paths = <<>>
    /\ pc = "ready"
    /\ res = NoResult

\* Lines 636-661.
ObjectEachEnter ==
    /\ pc = "ready"
    /\ res' = objectEachEnter(data, keys)
    /\ pc' = IF res'.done THEN "ObjectEach" ELSE "objectEach"
    /\ UNCHANGED <<data, keys, paths, doc>>

\* Lines 664-737, once; the visitor returns nil or an error of its own.
ObjectEachMember ==
    /\ pc = "objectEach"
    /\ \E ret \in VisitorReturns : res' = objectEachMember(FALSE, data, res, ret)
    /\ pc' = IF res'.done THEN "ObjectEach" ELSE "objectEach"
    /\ UNCHANGED <<data, keys, paths, doc>>

NextObject ==
    \/ ObjectEachEnter
    \/ ObjectEachMember

SpecObject == InitObject /\ [][NextObject]_vars

\* ---------------------------------------------------------------------
\* BytesParseInt of src/unnamed/part_009.  An int64 is four limbs of 16
\* bits, the lowest first, in two's complement: v = (10 * v) + digit is
\* computed modulo 2^64 as Go computes it.
\* ---------------------------------------------------------------------
Limb == 256 * 256
Zero64 == <<0, 0, 0, 0>>

\* (10 * v) + c modulo 2^64.
RECURSIVE MulAdd(_, _, _)
MulAdd(v, n, carry) ==
    IF n > Len(v) THEN <<>>
    ELSE <<(10 * v[n] + carry) % Limb>> \o MulAdd(v, n + 1, (10 * v[n] + carry) \div Limb)

\* -v modulo 2^64: every limb inverted, and one added.
RECURSIVE Negate(_, _, _)
Negate(v, n, carry) ==
    IF n > Len(v) THEN <<>>
    ELSE <<(Limb - 1 - v[n] + carry) % Limb>>
         \o Negate(v, n + 1, (Limb - 1 - v[n] + carry) \div Limb)

DigitOf(c) == CHOOSE n \in 0..9 : At(<<"0", "1", "2", "3", "4", "5", "6", "7", "8", "9">>, n) = c

ParseRet(v, ok) == [v |-> v, ok |-> ok]

\* BytesParseInt, lines 14-20: the loop over the digits.
RECURSIVE parseDigits(_, _)
parseDigits(bytes, v) ==
    IF Len(bytes) = 0 THEN ParseRet(v, TRUE)
    ELSE IF Head(bytes) \in Digits
    THEN parseDigits(Tail(bytes), MulAdd(v, 1, DigitOf(Head(bytes))))
    ELSE ParseRet(Zero64, FALSE)

\* BytesParseInt, lines 3-27.
BytesParseInt(bytes) ==
    LET Signed(r) == IF r.ok THEN ParseRet(Negate(r.v, 1, 1), TRUE) ELSE r
    IN
    IF Len(bytes) = 0 THEN ParseRet(Zero64, FALSE)
    ELSE IF Head(bytes) = "-" THEN Signed(parseDigits(Tail(bytes), Zero64))
    ELSE parseDigits(bytes, Zero64)

\* The decimal tokens of parseIntTests (bytes_test.go), and their
\* neighbours: the tokens that differ from one of them in the last digit,
\* with and without a sign.
DigitSeq(n) == <<"0", "1", "2", "3", "4", "5", "6", "7", "8", "9">>[n + 1]
MaxInt64Front == <<"9", "2", "2", "3", "3", "7", "2", "0", "3", "6", "8", "5", "4", "7", "7", "5", "8", "0">>
TwoTo64Front == <<"1", "8", "4", "4", "6", "7", "4", "4", "0", "7", "3", "7", "0", "9", "5", "5", "1", "6", "1">>
IntFronts == {<<>>, <<"1", "2", "3", "4">>, <<"0", "0">>, MaxInt64Front, MaxInt64Front \o <<"8">>, TwoTo64Front}
IntTokens ==
    {sign \o front \o <<DigitSeq(n)>> : sign \in {<<>>, <<"-">>}, front \in IntFronts, n \in 0..9}
    \cup {<<>>, <<"-">>, <<"a", "b", "c">>, <<"1", "2", "3", "4", "5", "x">>,
          <<"1", "2", "3", "e", "5">>, MaxInt64Front \o <<"7", "x">>}

InitInt ==
    /\ data \in IntTokens
    /\ keys = <<>>
    /\ paths = <<>>
    /\ doc = Arbitrary
    /\ pc = "ready"
    /\ res = NoResult

CallBytesParseInt == pc = "ready" /\ Return("BytesParseInt", BytesParseInt(data))

NextInt == CallBytesParseInt

SpecInt == InitInt /\ [][NextInt]_vars

\* ---------------------------------------------------------------------
\* ParseString and GetString.  A result is the Go string, the error and
\* whether the call faulted.
\* ---------------------------------------------------------------------
NotAString == "Value is not a number"

StrRet(val, e) == [val |-> val, err |-> e, panic |-> FALSE]
StrStop == [val |-> <<>>, err |-> ErrNil, panic |-> TRUE]

\* ParseString reporting the decoder's failure.
unescapedStrict(u) ==
    IF ~u.ok THEN StrRet(<<>>, MalformedValueError)
    ELSE StrRet(u.out, ErrNil)

\* ParseString, part_003 lines 847-851 and parser.go lines 616-620: what
\* is returned for the decoder's result u.
unescaped(u) ==
    IF ~u.ok THEN StrRet(<<>>, ErrNil)
    ELSE StrRet(u.out, ErrNil)

\* ParseString of src/unnamed/part_003, lines 840-852.
ParseString(b) ==
    IF Len(b) > 0 /\ Head(b) = QUOTE
    THEN IF Len(b) - 1 < 1 THEN StrStop
         ELSE unescaped(Unescape(Slice(b, 1, Len(b) - 1)))
    ELSE unescaped(Unescape(b))

\* ParseString of src/parser.go, lines 614-621.
ParseStringP(b) == unescaped(Unescape(b))

\* GetString of src/unnamed/part_003, lines 753-775.
GetString(d, ks) ==
    LET Plain(v) ==
            IF \A n \in 1..Len(v) : v[n] # BSL THEN StrRet(v, ErrNil)
            ELSE ParseString(v)
        Value(g) ==
            IF g.panic \/ g.hang THEN StrStop
            ELSE IF g.err # ErrNil THEN StrRet(<<>>, g.err)
            ELSE IF g.dataType # String THEN StrRet(<<>>, NotAString)
            ELSE IF Len(g.value) > 0 /\ Head(g.value) = QUOTE
            THEN IF Len(g.value) - 1 < 1 THEN StrStop
                 ELSE Plain(Slice(g.value, 1, Len(g.value) - 1))
            ELSE Plain(g.value)
    IN  Value(get(TRUE, d, ks))

\* GetString of src/parser.go, lines 532-549.
GetStringP(d, ks) ==
    LET Value(g) ==
            IF g.panic \/ g.hang THEN StrStop
            ELSE IF g.err # ErrNil THEN StrRet(<<>>, g.err)
            ELSE IF g.dataType # String THEN StrRet(<<>>, NotAString)
            ELSE IF \A n \in 1..Len(g.value) : g.value[n] # BSL THEN StrRet(g.value, ErrNil)
            ELSE ParseStringP(g.value)
    IN  Value(GetP(d, ks))

\* String bodies with escapes, good and bad, as parserescapes_test.go has
\* them; each is given bare, as a quoted document and as the member a.
StringBytes == {"a", "n", "x", BSL, QUOTE}
Bodies == UNION {[1..n -> StringBytes] : n \in 0..MaxRaw}

InitString ==
    /\ \E b \in Bodies :
          /\ doc = Bare(b)
          /\ \/ data = b /\ keys = <<>>
             \/ data = Str(b) /\ keys = <<>>
             \/ data = <<"{">> \o Str(A) \o <<":">> \o Str(b) \o <<"}">> /\ keys = <<A>>
    /\ paths = <<>>
    /\ pc = "ready"
    /\ res = NoResult

CallParseString == pc = "ready" /\ Return("ParseString", ParseString(data))
CallParseStringP == pc = "ready" /\ Return("ParseStringP", ParseStringP(data))
CallGetString == pc = "ready" /\ Return("GetString", GetString(data, keys))
CallGetStringP == pc = "ready" /\ Return("GetStringP", GetStringP(data, keys))

NextString ==
    \/ CallParseString
    \/ CallParseStringP
    \/ CallGetString
    \/ CallGetStringP

SpecString == InitString /\ [][NextString]_vars

\* ---------------------------------------------------------------------
\* The scan of searchKeys (part_003), one iteration of its loop at a
\* time: res holds i, level and keyLevel between the iterations.
\* ---------------------------------------------------------------------
InitScan ==
    /\ InitDoc
    /\ paths = <<>>
    /\ pc = "scan"
    /\ res = SKState(0, 0, 0)

\* searchKeys, lines 120-122: no path, no scan.
ScanNoKeys ==
    /\ pc = "scan"
    /\ Len(keys) = 0
    /\ pc' = "searchKeys"
    /\ res' = SKDone(res, 0)
    /\ UNCHANGED <<data, keys, paths, doc>>

\* searchKeys, lines 126-211: one iteration that leaves the scan going.
ScanStep ==
    /\ pc = "scan"
    /\ Len(keys) > 0
    /\ ~searchKeysStep(data, keys, res).done
    /\ res' = searchKeysStep(data, keys, res)
    /\ UNCHANGED <<data, keys, paths, doc, pc>>

\* searchKeys, lines 126-213: the iteration that returns or faults.
ScanReturn ==
    /\ pc = "scan"
    /\ Len(keys) > 0
    /\ searchKeysStep(data, keys, res).done
    /\ pc' = "searchKeys"
    /\ res' = searchKeysStep(data, keys, res)
    /\ UNCHANGED <<data, keys, paths, doc>>

NextScan ==
    \/ ScanNoKeys
    \/ ScanStep
    \/ ScanReturn

SpecScan == InitScan /\ [][NextScan]_vars

\* ---------------------------------------------------------------------
\* JsonValue, part_003 lines 872-928.  res holds the receiver jv, a
\* pointer's target, and the value that the last call returned.
\* ---------------------------------------------------------------------
IndexError == "Index only supported for Array"

JsonValue(v, t, e) == [data |-> v, Type |-> t, err |-> e]
Holds(jv, ret) == [jv |-> jv, ret |-> ret, panic |-> FALSE]
Fault(jv) == [jv |-> jv, ret |-> jv, panic |-> TRUE]

\* The value that get(true, ...) has returned, lines 891-892, 899-900
\* and 926-927.
Lookup(jv, g) ==
    IF g.panic \/ g.hang THEN Fault(jv)
    ELSE Holds(jv, JsonValue(g.value, g.dataType, g.err))

\* ParseJson, lines 890-893.
ParseJson(d, ks) ==
    LET New(g) == JsonValue(g.value, g.dataType, g.err)
    IN  New(get(TRUE, d, ks))

\* JsonValue.Get, lines 895-901.
JsonValueGet(jv, ks) ==
    IF jv.err # ErrNil THEN Holds(jv, jv)
    ELSE Lookup(jv, get(TRUE, jv.data, ks))

\* JsonValue.Index, lines 911-928: a receiver that is no array gets the
\* error written into it.
JsonValueIndex(jv, indices) ==
    LET Failed(jv2) == Holds(jv2, jv2)
    IN
    IF jv.err # ErrNil THEN Holds(jv, jv)
    ELSE IF jv.Type # Array THEN Failed([jv EXCEPT !.err = IndexError])
    ELSE Lookup(jv, get(TRUE, jv.data, [n \in 1..Len(indices) |-> Idx(indices[n])]))

\* The receiver is what ParseJson makes of the buffer and the path.
InitValue ==
    /\ InitDoc
    /\ ~get(TRUE, data, keys).panic
    /\ ~get(TRUE, data, keys).hang
    /\ paths = <<>>
    /\ pc = "ready"
    /\ res = Holds(ParseJson(data, keys), ParseJson(data, keys))

LookupKeys == {<<>>, <<A>>, <<B>>, <<A, B>>}
LookupIndices == {<<>>, <<"0">>, <<"1">>, <<"0", "0">>}

CallJsonValueGet ==
    /\ ~res.panic
    /\ \E ks \in LookupKeys :
          /\ res' = JsonValueGet(res.jv, ks)
          /\ pc' = "JsonValue.Get"
    /\ UNCHANGED <<data, keys, paths, doc>>

CallJsonValueIndex ==
    /\ ~res.panic
    /\ \E indices \in LookupIndices :
          /\ res' = JsonValueIndex(res.jv, indices)
          /\ pc' = "JsonValue.Index"
    /\ UNCHANGED <<data, keys, paths, doc>>

NextValue ==
    \/ CallJsonValueGet
    \/ CallJsonValueIndex

SpecValue == InitValue /\ [][NextValue]_vars

\* ---------------------------------------------------------------------
\* Unmarshal of src/encode.go, called from several goroutines.  doc is
\* the package-level cache, the set of the struct names it has an entry
\* for; data is the struct name each goroutine unmarshals into, pc its
\* position in unmarshalStruct and res its local ok and the calls it has
\* made.  A map access takes time: it begins and it ends, and other
\* goroutines move in between.
\* ---------------------------------------------------------------------
MaxCalls == 2
Goroutines == {"g1", "g2"}
StructNames == {"S", "T"}

At81(g) == pc[g] = "reading"
At101(g) == pc[g] = "writing"
\* Another goroutine writes the map while g is at it.
Racing(g) == \E h \in Goroutines \ {g} : At101(h)

Goto(g, pos) == pc' = [pc EXCEPT ![g] = pos]

\* init, lines 16-18: an empty map.
InitUnmarshal ==
    /\ doc = {}
    /\ data = [g \in Goroutines |-> "S"]
    /\ pc = [g \in Goroutines |-> "idle"]
    /\ res = [g \in Goroutines |-> [ok |-> FALSE, calls |-> 0]]
    /\ keys = <<>>
    /\ paths = <<>>

\* Unmarshal, lines 116-122, up to sName of line 76.
Unmarshal(g) ==
    /\ pc[g] = "idle"
    /\ res[g].calls < MaxCalls
    /\ \E sName \in StructNames : data' = [data EXCEPT ![g] = sName]
    /\ Goto(g, "lookup")
    /\ UNCHANGED <<keys, paths, doc, res>>

\* Line 81: the read of cache[sName] begins.
CacheReadBegin(g) ==
    /\ pc[g] = "lookup"
    /\ Goto(g, "reading")
    /\ UNCHANGED <<data, keys, paths, doc, res>>

\* Line 81: the read ends.  Beside a write of another goroutine it finds
\* the entry or not, whatever the map holds.
CacheReadEnd(g) ==
    /\ At81(g)
    /\ \E ok \in IF Racing(g) THEN BOOLEAN ELSE {data[g] \in doc} :
          /\ res' = [res EXCEPT ![g].ok = ok]
          /\ Goto(g, IF ok THEN "fields" ELSE "build")
    /\ UNCHANGED <<data, keys, paths, doc>>

\* Lines 82-100: the field names of the struct.
BuildFields(g) ==
    /\ pc[g] = "build"
    /\ Goto(g, "store")
    /\ UNCHANGED <<data, keys, paths, doc, res>>

\* Line 101: the write of cache[sName] begins.
CacheWriteBegin(g) ==
    /\ pc[g] = "store"
    /\ Goto(g, "writing")
    /\ UNCHANGED <<data, keys, paths, doc, res>>

\* Line 101: the write ends.
CacheWriteEnd(g) ==
    /\ At101(g)
    /\ doc' = doc \cup {data[g]}
    /\ Goto(g, "fields")
    /\ UNCHANGED <<data, keys, paths, res>>

\* Lines 104-114: KeyEach over the fields, and the return.
KeyEachFields(g) ==
    /\ pc[g] = "fields"
    /\ res' = [res EXCEPT ![g].calls = res[g].calls + 1]
    /\ Goto(g, "idle")
    /\ UNCHANGED <<data, keys, paths, doc>>

\* The runtime may notice a map access beside a map write and end the
\* program ("fatal error: concurrent map writes").
Throw ==
    /\ \E g \in Goroutines : (At81(g) \/ At101(g)) /\ Racing(g)
    /\ pc' = [g \in Goroutines |-> "fatal"]
    /\ UNCHANGED <<data, keys, paths, doc, res>>

NextUnmarshal ==
    \/ \E g \in Goroutines : Unmarshal(g)
    \/ \E g \in Goroutines : CacheReadBegin(g)
    \/ \E g \in Goroutines : CacheReadEnd(g)
    \/ \E g \in Goroutines : BuildFields(g)
    \/ \E g \in Goroutines : CacheWriteBegin(g)
    \/ \E g \in Goroutines : CacheWriteEnd(g)
    \/ \E g \in Goroutines : KeyEachFields(g)
    \/ Throw

SpecUnmarshal == InitUnmarshal /\ [][NextUnmarshal]_vars

\* ---------------------------------------------------------------------
\* LineIndex of src/linecol.go.  The blobs are ASCII, one byte a rune.
\* ---------------------------------------------------------------------
MaxBlob == 5

\* FindNewlines, lines 29-41: the offsets of the newlines, in order.
RECURSIVE FindNewlines(_, _)
FindNewlines(blob, index) ==
    IF index >= Len(blob) THEN <<>>
    ELSE IF At(blob, index) = "\n" THEN <<index>> \o FindNewlines(blob, index + 1)
    ELSE FindNewlines(blob, index + 1)

\* NewLineIndex, lines 19-26.
NewLineIndex(json) == [JsonBlob |-> json, NewlinePos |-> FindNewlines(json, 0)]

LineCol(offset, line, bytecol, runecol) ==
    [offset |-> offset, line |-> line, bytecol |-> bytecol, runecol |-> runecol,
     panic |-> FALSE]
LineColFault(offset) ==
    [offset |-> offset, line |-> 0, bytecol |-> 0, runecol |-> 0, panic |-> TRUE]

\* bytePosToRunePos, lines 98-105.
bytePosToRunePos(li, linenoz, offset) ==
    LET Count(beg) == Len(Slice(li.JsonBlob, beg, offset + 1)) - 1
    IN  IF linenoz > 0 THEN Count(At(li.NewlinePos, linenoz - 1) + 1) ELSE Count(0)

\* sort.Search(n, f) for f(i) == offset < NewlinePos[i]: the smallest
\* index at which f holds, n when there is none.
Search(li, n, offset) ==
    Min({i \in 0..(n - 1) : offset < At(li.NewlinePos, i)} \cup {n})

\* OffsetToLineCol, lines 84-85: the line that the search has found.
Locate(li, offset, srch) ==
    IF srch - 1 < 0 THEN LineColFault(offset)
    ELSE LineCol(offset, srch, offset - (At(li.NewlinePos, srch - 1) + 1),
                 bytePosToRunePos(li, srch, offset))

\* OffsetToLineCol, lines 56-86.
OffsetToLineCol(li, offset) ==
    LET Lines(n) ==
            IF n = 0 THEN LineCol(offset, 0, offset, bytePosToRunePos(li, 0, offset))
            ELSE IF offset >= At(li.NewlinePos, n - 1)
            THEN LineCol(offset, n, offset - (At(li.NewlinePos, n - 1) + 1),
                         bytePosToRunePos(li, n, offset))
            ELSE Locate(li, offset, Search(li, n, offset))
    IN
    IF offset >= Len(li.JsonBlob) \/ offset < 0 THEN LineCol(offset, -1, -1, -1)
    ELSE IF offset = 0 THEN LineCol(offset, 0, 0, 0)
    ELSE Lines(Len(li.NewlinePos))

\* The blobs: lines of the letter a, as TestGetLineCol has them.  doc is
\* the index NewLineIndex builds.
Blobs == UNION {[1..n -> {"a", "\n"}] : n \in 0..MaxBlob}

InitLine ==
    /\ data \in Blobs
    /\ doc = NewLineIndex(data)
    /\ keys = <<>>
    /\ paths = <<>>
    /\ pc = "ready"
    /\ res = NoResult

CallOffsetToLineCol ==
    /\ pc = "ready"
    /\ \E offset \in (-1)..(Len(data) + 1) :
          Return("OffsetToLineCol", OffsetToLineCol(doc, offset))

NextLine == CallOffsetToLineCol

SpecLine == InitLine /\ [][NextLine]_vars

\* ---------------------------------------------------------------------
\* stringEnd and blockEnd on their own, as TestStringEnd and the block
\* tests of parser_test.go call them.
\* ---------------------------------------------------------------------
MaxLex == 6
LexBytes == {"{", "}", "[", "]", QUOTE, BSL}
Lexemes == UNION {[1..n -> LexBytes] : n \in 0..MaxLex}
Brackets == {<<"{", "}">>, <<"[", "]">>}

BlockRet(end, openSym, closeSym) ==
    [end |-> end, openSym |-> openSym, closeSym |-> closeSym]

InitLex ==
    /\ data \in Lexemes
    /\ doc = Arbitrary
    /\ keys = <<>>
    /\ paths = <<>>
    /\ pc = "ready"
    /\ res = NoResult

CallStringEnd == pc = "ready" /\ Return("stringEnd", stringEnd(data))

CallBlockEnd ==
    /\ pc = "ready"
    /\ \E b \in Brackets :
          Return("blockEnd", BlockRet(blockEnd(data, b[1], b[2]), b[1], b[2]))

NextLex ==
    \/ CallStringEnd
    \/ CallBlockEnd

SpecLex == InitLex /\ [][NextLex]_vars

\* ---------------------------------------------------------------------
\* What a document holds, read off its tree and not its bytes.
\* ---------------------------------------------------------------------
Returned(r) == ~r.panic /\ ("hang" \in DOMAIN r => ~r.hang)
Succeeded(r) == Returned(r) /\ r.err = ErrNil

IsIndex(seg) == Len(seg) > 0 /\ seg[1] = "["
LiteralPath(ks) == \A n \in 1..Len(ks) : ~IsIndex(ks[n])
IndexOf(seg) == Atoi(Slice(seg, 1, Len(seg) - 1))

\* The values a path addresses: member chains through objects, element k
\* of an array for a segment [k].
RECURSIVE Chain(_, _)
Chain(t, ks) ==
    IF Len(ks) = 0 THEN {t}
    ELSE IF IsIndex(Head(ks))
    THEN IF t.kind = Array /\ IndexOf(Head(ks)) < Len(t.els)
         THEN Chain(t.els[IndexOf(Head(ks)) + 1], Tail(ks))
         ELSE {}
    ELSE IF t.kind = Object
    THEN UNION {Chain(t.mem[n][2], Tail(ks)) :
                  n \in {m \in 1..Len(t.mem) : t.mem[m][1] = Head(ks)}}
    ELSE {}

\* The region of a value written in whitespace style sp.
Region(v, sp) ==
    IF v.kind = String THEN Slice(v.lit, 1, Len(v.lit) - 1)
    ELSE IF v.kind = Null THEN <<>>
    ELSE Drop(Bytes(v, sp), Len(sp))

Delivers(r, v) == r.value = Region(v, doc.style.sp) /\ r.dataType = v.kind

GetDone == pc \in {"Get", "GetP"}

\* C1: for a well-formed document and a path of literal keys, Get returns
\* a value only if the document holds that member chain, the value is the
\* last key's value in such a chain, and a path with no chain in the
\* document yields KeyPathNotFound.
C1_MemberChain ==
    (GetDone /\ doc.wf /\ Len(keys) > 0 /\ LiteralPath(keys)) =>
        /\ Succeeded(res) => \E v \in Chain(doc.tree, keys) : Delivers(res, v)
        /\ Chain(doc.tree, keys) = {} => Returned(res) /\ res.err = KeyPathNotFoundError

\* The number of backslashes that end s.
RECURSIVE TrailingBackslashes(_)
TrailingBackslashes(s) ==
    IF Len(s) > 0 /\ s[Len(s)] = BSL
    THEN 1 + TrailingBackslashes(SubSeq(s, 1, Len(s) - 1))
    ELSE 0

\* v is the inside of a string literal: each quote in it is escaped, and
\* the quote that follows it is not.
StringBody(v) ==
    /\ \A j \in 1..Len(v) :
          v[j] = QUOTE => TrailingBackslashes(SubSeq(v, 1, j - 1)) % 2 = 1
    /\ TrailingBackslashes(v) % 2 = 0

\* v, read from byte i at nesting depth, closes its first bracket with its
\* last byte and not before; brackets inside string literals do not count.
RECURSIVE ClosesAtEnd(_, _, _, _, _, _, _)
ClosesAtEnd(v, open, close, i, depth, inStr, bs) ==
    IF i > Len(v) THEN FALSE
    ELSE IF inStr
    THEN IF v[i] = BSL THEN ClosesAtEnd(v, open, close, i + 1, depth, TRUE, bs + 1)
         ELSE IF v[i] = QUOTE /\ bs % 2 = 0
         THEN ClosesAtEnd(v, open, close, i + 1, depth, FALSE, 0)
         ELSE ClosesAtEnd(v, open, close, i + 1, depth, TRUE, 0)
    ELSE IF v[i] = QUOTE THEN ClosesAtEnd(v, open, close, i + 1, depth, TRUE, 0)
    ELSE IF v[i] = open THEN ClosesAtEnd(v, open, close, i + 1, depth + 1, FALSE, 0)
    ELSE IF v[i] = close
    THEN IF depth = 1 THEN i = Len(v)
         ELSE ClosesAtEnd(v, open, close, i + 1, depth - 1, FALSE, 0)
    ELSE ClosesAtEnd(v, open, close, i + 1, depth, FALSE, 0)

Block(v, open, close) ==
    Len(v) >= 2 /\ v[1] = open /\ ClosesAtEnd(v, open, close, 1, 0, FALSE, 0)

\* The bytes of the buffer that end at end-offset e are v.
EndsAt(v, e) == Len(v) <= e /\ e <= Len(data) /\ Slice(data, e - Len(v), e) = v

\* Every value of a document: the tree and the trees below it.
RECURSIVE SubTrees(_)
SubTrees(t) ==
    {t} \cup
    (IF t.kind = Array THEN UNION {SubTrees(t.els[n]) : n \in 1..Len(t.els)}
     ELSE IF t.kind = Object THEN UNION {SubTrees(t.mem[n][2]) : n \in 1..Len(t.mem)}
     ELSE {})

OneValue(r) ==
    LET v == r.value
        e == r.offset
    IN
    /\ r.dataType \in {String, Number, Object, Array, Boolean, Null}
    /\ r.dataType = String =>
          /\ EndsAt(<<QUOTE>> \o v \o <<QUOTE>>, e)
          /\ StringBody(v)
    /\ r.dataType = Object => EndsAt(v, e) /\ Block(v, "{", "}")
    /\ r.dataType = Array => EndsAt(v, e) /\ Block(v, "[", "]")
    /\ r.dataType \in {Number, Boolean} =>
          /\ EndsAt(v, e)
          /\ Len(v) > 0
          /\ \A j \in 1..Len(v) : v[j] \notin Terminators
          /\ e < Len(data) => At(data, e) \in Terminators
    /\ r.dataType = Boolean => v \in {trueLiteral, falseLiteral}
    /\ r.dataType = Null => v = <<>> /\ EndsAt(nullLiteral, e)
    /\ doc.wf => \E n \in SubTrees(doc.tree) : Delivers(r, n)

\* C2: whenever Get returns without error, the region and the kind are
\* those of exactly one value of the buffer (a string's bytes between its
\* quotes, a block from its bracket through the matching one, a literal
\* run up to the next terminator, nothing for null), and the end-offset is
\* one past that value's last byte, at most the buffer's length.
C2_RegionAndEnd ==
    (GetDone /\ Succeeded(res)) => OneValue(res)

\* C3: the exported operations are total: whatever the buffer and the
\* path, a call returns a value or an error tag and never faults with an
\* index or a slice out of range.
Exported == {"Get", "GetP", "ArrayEach", "ArrayEachP", "EachKey", "EachKeyP"}

C3_Total ==
    pc \in Exported => ~res.panic

Front(ks) == SubSeq(ks, 1, Len(ks) - 1)
Last(ks) == ks[Len(ks)]
NotFound(r) == Returned(r) /\ r.err = KeyPathNotFoundError

\* C4: a path that ends in [k] selects element k of the array its other
\* segments address: Get returns the kind and the region of that element,
\* of whatever kind, and KeyPathNotFound when the array has fewer than
\* k+1 elements.
C4_IndexSelects ==
    (pc = "Get" /\ doc.wf /\ Len(keys) > 0 /\ IsIndex(Last(keys))
        /\ Cardinality(Chain(doc.tree, Front(keys))) = 1) =>
        \A a \in Chain(doc.tree, Front(keys)) :
            a.kind = Array =>
                IF IndexOf(Last(keys)) < Len(a.els)
                THEN Succeeded(res) /\ Delivers(res, a.els[IndexOf(Last(keys)) + 1])
                ELSE NotFound(res)

\* Some segment other than the last is an index segment.
ContinuesAfterIndex(ks) == \E n \in 1..(Len(ks) - 1) : IsIndex(ks[n])

\* The bytes at offset off, after whitespace, are those of value v.
StartsAt(v, off) ==
    LET b == Drop(Bytes(v, doc.style.sp), Len(doc.style.sp)) IN
    /\ off >= 0
    /\ \E w \in 0..(Len(data) - off) :
          /\ \A j \in off..(off + w - 1) : At(data, j) \in WS
          /\ off + w + Len(b) <= Len(data)
          /\ Slice(data, off + w, off + w + Len(b)) = b

\* C5: when a path continues after an index segment, the rest is resolved
\* inside that element only: searchKeys returns the absolute offset of
\* the value addressed there, and when nothing is addressed there it
\* returns -1 and Get reports KeyPathNotFound.
C5_InsideElement ==
    (doc.wf /\ ContinuesAfterIndex(keys)
        /\ Cardinality(Chain(doc.tree, keys)) <= 1) =>
        /\ pc = "searchKeys" =>
              /\ ~res.panic
              /\ Chain(doc.tree, keys) = {} => res.off = -1
              /\ \A v \in Chain(doc.tree, keys) : StartsAt(v, res.off)
        /\ pc = "Get" =>
              /\ Chain(doc.tree, keys) = {} => NotFound(res)
              /\ \A v \in Chain(doc.tree, keys) : Succeeded(res) /\ Delivers(res, v)

\* What searchKeys returns for the call that Get made.
SearchOfGet == IF pc = "Get" THEN searchKeys(data, keys) ELSE searchKeysP(data, keys)
SearchFound(sk) == Returned(sk) /\ sk.off >= 0
SearchMissed(sk) == Returned(sk) /\ sk.off = -1

\* C6 as stated: for every buffer and every non-empty path, Get returns
\* without error if and only if searchKeys returns a non-negative offset.
C6_SucceedsIffFound ==
    (GetDone /\ Len(keys) > 0) =>
        (Succeeded(res) <=> SearchFound(SearchOfGet))

\* C6, amended: for every buffer and every non-empty path, Get reports
\* KeyPathNotFound if and only if searchKeys returns -1, and Get returns
\* without error only if searchKeys returns a non-negative offset (the
\* value at a found offset may still be missing or malformed).
C6_FoundOrNotFound ==
    (GetDone /\ Len(keys) > 0) =>
        /\ NotFound(res) <=> SearchMissed(SearchOfGet)
        /\ Succeeded(res) => SearchFound(SearchOfGet)

C6_Witness ==
    /\ pc = "Get"
    /\ Len(keys) = 2
    /\ SearchFound(searchKeys(data, keys))
    /\ Returned(res)
    /\ res.err = MalformedJsonError

\* The array that ArrayEach is to visit: the one value the path addresses.
Visited(a) == Chain(doc.tree, keys) = {a} /\ a.kind = Array

\* C8: over a well-formed array, given as the whole buffer with any
\* whitespace around and between its tokens or reached through a path,
\* ArrayEach calls the visitor once per element, in index order, with
\* that element's kind and region, and reports no error.
C8_OncePerElement ==
    (pc = "ArrayEach" /\ doc.wf) =>
        \A a \in Chain(doc.tree, keys) :
            Visited(a) =>
                /\ Returned(res)
                /\ res.err = ErrNil
                /\ Len(res.calls) = Len(a.els)
                /\ \A n \in 1..Len(a.els) :
                      n <= Len(res.calls) => Delivers(res.calls[n], a.els[n])

\* C9: over an empty array written [], [ ] or [<newline>], as the whole
\* buffer or reached through a path, ArrayEach never calls the visitor,
\* returns no error, and returns the index of the closing bracket.
C9_EmptyArray ==
    (pc = "ArrayEach" /\ doc.wf /\ Visited(ArrNode(<<>>))) =>
        /\ Returned(res)
        /\ res.calls = <<>>
        /\ res.err = ErrNil
        /\ EndsAt(<<"[">> \o doc.style.sp \o <<"]">>, res.offset + 1)

\* C10: when the read of an element fails at a byte that is not the
\* closing bracket, ArrayEach stops, does not call the visitor for that
\* element, and returns the error: the visitor never receives an error,
\* and a nil error is returned only with the scan stopped at a ']'.
C10_FailurePropagates ==
    /\ (pc \in {"ArrayEach", "ArrayEachP"} /\ Returned(res)) =>
          \A n \in 1..Len(res.calls) : res.calls[n].err = ErrNil
    /\ (pc = "ArrayEach" /\ Returned(res) /\ res.err = ErrNil) =>
          /\ 0 <= res.offset /\ res.offset < Len(data)
          /\ At(data, res.offset) = "]"

\* What an independent Get returns for path number i of the list.
GetOfPath(i) == IF pc = "EachKey" THEN Get(data, paths[i]) ELSE GetP(data, paths[i])
CallsOf(i) == {n \in 1..Len(res.calls) : res.calls[n].idx = i - 1}

\* C7: EachKey gives the visitor, for each path of the list, exactly what
\* an independent Get of that path returns: one call with the path's
\* index, value and kind when Get resolves it, none when Get does not,
\* and the calls come in the document order of the values.
C7_AsIndependentGets ==
    (pc \in {"EachKey", "EachKeyP"} /\ doc.wf) =>
        /\ Returned(res)
        /\ \A i \in 1..Len(paths) :
              IF Succeeded(GetOfPath(i))
              THEN /\ Cardinality(CallsOf(i)) = 1
                   /\ \A n \in CallsOf(i) :
                         /\ res.calls[n].value = GetOfPath(i).value
                         /\ res.calls[n].dataType = GetOfPath(i).dataType
                         /\ res.calls[n].err = ErrNil
              ELSE CallsOf(i) = {}
        /\ \A m, n \in 1..Len(res.calls) :
              m < n => GetOfPath(res.calls[m].idx + 1).offset
                          <= GetOfPath(res.calls[n].idx + 1).offset

\* ---------------------------------------------------------------------
\* ObjectEach
\* ---------------------------------------------------------------------
AllNil(calls) == \A n \in 1..Len(calls) : calls[n].ret = ErrNil
ObjectDone == pc = "ObjectEach"
\* The value a path addresses when a key is repeated: the first member
\* with the key is the one that counts for its segment.
RECURSIVE FirstChain(_, _)
FirstChain(t, ks) ==
    IF Len(ks) = 0 THEN {t}
    ELSE IF IsIndex(Head(ks))
    THEN IF t.kind = Array /\ IndexOf(Head(ks)) < Len(t.els)
         THEN FirstChain(t.els[IndexOf(Head(ks)) + 1], Tail(ks))
         ELSE {}
    ELSE IF t.kind = Object /\ \E m \in 1..Len(t.mem) : t.mem[m][1] = Head(ks)
    THEN FirstChain(t.mem[Min({m \in 1..Len(t.mem) : t.mem[m][1] = Head(ks)})][2], Tail(ks))
    ELSE {}

Entered(o) == FirstChain(doc.tree, keys) = {o} /\ o.kind = Object

\* C11: over a well-formed object, given as the whole buffer or reached
\* through a path, ObjectEach (with a visitor that returns nil) calls the
\* visitor once per top-level member, in document order, with that
\* member's key, region and kind, and returns nil.
C11_OncePerMember ==
    (ObjectDone /\ doc.wf /\ AllNil(res.calls)) =>
        \A o \in Chain(doc.tree, keys) :
            Entered(o) =>
                /\ Returned(res)
                /\ res.err = ErrNil
                /\ Len(res.calls) = Len(o.mem)
                /\ \A n \in 1..Len(o.mem) :
                      n <= Len(res.calls) =>
                          /\ res.calls[n].key = o.mem[n][1]
                          /\ Delivers(res.calls[n], o.mem[n][2])

\* An object of two members reached through the path b, one of them an
\* array of its own, has been visited.
C11_Witness ==
    /\ ObjectDone /\ doc.wf /\ keys = <<B>>
    /\ \E o \in Chain(doc.tree, keys) : Entered(o) /\ Len(o.mem) = 2
    /\ Len(res.calls) = 2
    /\ res.calls[2].dataType = Array
    /\ res.err = ErrNil

\* C12: once the visitor has returned an error, ObjectEach has returned
\* that error and the failed call is the last one: in no state, during or
\* after the call, does a visitor call follow one that returned an error.
C12_VisitorErrorEnds ==
    (pc \in {"objectEach", "ObjectEach"}) =>
        \A n \in 1..Len(res.calls) :
            res.calls[n].ret # ErrNil =>
                /\ n = Len(res.calls)
                /\ ObjectDone
                /\ ~res.panic
                /\ res.err = res.calls[n].ret

\* The visitor failed at the first member of an object of two.
C12_Witness ==
    /\ ObjectDone /\ doc.wf /\ keys = <<>>
    /\ doc.tree.kind = Object /\ Len(doc.tree.mem) = 2
    /\ Len(res.calls) = 1
    /\ res.calls[1].ret = VisitorError
    /\ res.err = VisitorError

NoOpeningBrace(d) ==
    \A i \in 1..Len(d) : d[i] = "{" => \E j \in 1..(i - 1) : d[j] \notin WS

\* C13 as stated: on an object with one structural defect ObjectEach
\* (with a visitor that returns nil) returns an error, and
\* MalformedObjectError when the first byte that is not whitespace is not
\* an opening brace.
C13_BrokenObject ==
    (ObjectDone /\ "damage" \in DOMAIN doc /\ AllNil(res.calls)) =>
        /\ Returned(res)
        /\ res.err # ErrNil
        /\ (NoOpeningBrace(data) /\ Len(keys) = 0) => res.err = MalformedObjectError

\* The comma is missing right after a bare number, with no whitespace
\* there: the number's token runs on into the next member.
RunOnNumber ==
    /\ doc.damage = "nocomma"
    /\ doc.style.sp = <<>>
    /\ doc.tree.mem[doc.at - 1][2].kind = Number

\* C13: on an object with one structural defect ObjectEach (with a
\* visitor that returns nil) returns an error, and MalformedObjectError
\* when the first byte that is not whitespace is not an opening brace;
\* except that a bare number with the next member written right after it
\* is read as one Number token, and the call can then return nil.
C13_BrokenUnlessRunOn ==
    (ObjectDone /\ "damage" \in DOMAIN doc /\ AllNil(res.calls)) =>
        /\ Returned(res)
        /\ res.err = ErrNil =>
              /\ RunOnNumber
              /\ Len(res.calls) >= doc.at - 1
              /\ res.calls[doc.at - 1].dataType = Number
        /\ (NoOpeningBrace(data) /\ Len(keys) = 0) => res.err = MalformedObjectError

\* Two commas after the first member: the visitor was called for it and
\* the call returned MalformedObjectError.
C13_Witness ==
    /\ ObjectDone /\ "damage" \in DOMAIN doc /\ doc.damage = "twocommas"
    /\ Len(res.calls) = 1 /\ AllNil(res.calls)
    /\ res.err = MalformedObjectError

\* ---------------------------------------------------------------------
\* Offsets of ArrayEach and searchKeys
\* ---------------------------------------------------------------------
\* The bytes of the buffer from offset off on begin with those of value v.
BeginsAt(v, off) ==
    LET b == Drop(Bytes(v, doc.style.sp), Len(doc.style.sp)) IN
    /\ off >= 0
    /\ off + Len(b) <= Len(data)
    /\ Slice(data, off, off + Len(b)) = b

\* C14: the offset ArrayEach passes to its visitor with an element is the
\* index in the buffer at which that element starts, for elements of
\* every kind.
C14_OffsetIsStart ==
    (pc \in {"ArrayEach", "ArrayEachP"} /\ doc.wf) =>
        \A a \in Chain(doc.tree, keys) :
            Visited(a) =>
                \A n \in 1..Len(res.calls) :
                    (n <= Len(a.els) /\ Delivers(res.calls[n], a.els[n])) =>
                        BeginsAt(a.els[n], res.calls[n].offset)

\* The array a is what the path ks addresses, and the index segment seg
\* names one of its elements.
ElementOf(a, ks, seg) ==
    /\ Chain(doc.tree, ks) = {a}
    /\ a.kind = Array
    /\ IsIndex(seg)
    /\ IndexOf(seg) < Len(a.els)

\* The offset of the visitor call of ArrayEach for element k, counted
\* from 0, is off.
VisitsAt(r, k, off) ==
    /\ Returned(r)
    /\ Len(r.calls) > k
    /\ r.calls[k + 1].offset = off

\* C15: on a well-formed document, searchKeys with a path that ends with
\* the index k of an element of an array returns the offset ArrayEach,
\* called with the path without that index, passes to its visitor call
\* number k (src/unnamed/part_003).
C15_SearchIsVisitOffset ==
    (pc = "searchKeys" /\ doc.wf) =>
        \A a \in Chain(doc.tree, Front(keys)) :
            ElementOf(a, Front(keys), Last(keys)) =>
                /\ Returned(res)
                /\ VisitsAt(ArrayEach(data, Front(keys)), IndexOf(Last(keys)), res.off)

\* ---------------------------------------------------------------------
\* EachKey: the end of the scan
\* ---------------------------------------------------------------------
KeysDone == pc \in {"EachKey", "EachKeyP"}

\* Every requested path has had its visitor call.
AllMatched(calls) ==
    \A pi \in 0..(Len(paths) - 1) : \E n \in 1..Len(calls) : calls[n].idx = pi

\* The offset ret is where the scan stood when it made the call c: just
\* behind the bytes of the delivered value (a string's closing quote and
\* the four bytes of a null included), or at the bracket of the array
\* whose element was delivered.
StoppedAt(ret, c) ==
    \/ /\ ret < Len(data)
       /\ At(data, ret) = "["
    \/ /\ c.dataType \notin {String, Null}
       /\ ret >= Len(c.value)
       /\ Slice(data, ret - Len(c.value), ret) = c.value
    \/ /\ c.dataType = String
       /\ ret >= Len(c.value) + 2
       /\ Slice(data, ret - 1 - Len(c.value), ret) = c.value \o <<QUOTE>>
    \/ /\ c.dataType = Null
       /\ ret >= 4
       /\ Slice(data, ret - 4, ret) = <<"n", "u", "l", "l">>

\* C16: once every requested path has had its visitor call, EachKey has
\* returned a non-negative offset and has made no visitor call beyond
\* the one per path: the call that satisfies the last outstanding path is
\* the last call, and when that call delivered a value the offset
\* returned is where the scan stood at that call, so that nothing behind
\* it has been examined.
C16_StopsWhenAllMatched ==
    (KeysDone /\ AllMatched(res.calls)) =>
        /\ Returned(res)
        /\ res.ret >= 0
        /\ Len(res.calls) = Len(paths)
        /\ Last(res.calls).err = ErrNil => StoppedAt(res.ret, Last(res.calls))

\* The elements ArrayEach walks in the array that begins at offset off:
\* eachKey, line 357, walks the array at the scan position this way.
Walked(off) == Len(ArrayEach(Drop(data, off), <<>>).calls)

\* The call c was made for an element of the array at the offset ret,
\* and the walk of that array went no further than that element.
NoLaterElement(ret, p) ==
    \A L \in 0..(Len(p) - 1) :
        \A a \in Chain(doc.tree, SubSeq(p, 1, L)) :
            (a.kind = Array /\ IsIndex(p[L + 1]) /\ BeginsAt(a, ret)) =>
                Walked(ret) <= IndexOf(p[L + 1]) + 1

\* C16 as stated: EachKey returns at once after the visitor call that
\* satisfies the last outstanding path, with a non-negative offset, no
\* further visitor call and nothing later in the document examined; for
\* a path satisfied by an array element, no later element of that array
\* is walked.
C16_StopsAtOnce ==
    (KeysDone /\ AllMatched(res.calls)) =>
        /\ Returned(res)
        /\ res.ret >= 0
        /\ Len(res.calls) = Len(paths)
        /\ doc.wf => NoLaterElement(res.ret, paths[Last(res.calls).idx + 1])

\* ---------------------------------------------------------------------
\* EachKey: the number of paths
\* ---------------------------------------------------------------------
\* C17: a call of EachKey with 1 to 63 paths reads the flag table within
\* its bounds, and every path index 0..62 has a bit of its own: the path
\* whose key the document holds gets its visitor call, whatever its index
\* (src/unnamed/part_003).
C17_UpTo63Paths ==
    (pc = "EachKey" /\ Len(paths) <= FlagBits) =>
        /\ ~res.panic
        /\ \A pi \in 0..(Len(paths) - 1) :
              paths[pi + 1] = <<doc.tree.mem[1][1]>> =>
                  \E n \in 1..Len(res.calls) : res.calls[n].idx = pi

\* ---------------------------------------------------------------------
\* Termination of searchKeys (src/parser.go)
\* ---------------------------------------------------------------------
\* C18: every call of searchKeys, and of Get with a path, runs to
\* completion on every buffer: the scan never goes on for ever
\* (searchKeys of src/parser.go).
C18_SearchTerminates ==
    (pc \in {"searchKeysP", "GetP"} /\ Len(keys) > 0) => ~res.hang

\* C18, the example: the search for b in a document whose value of a is
\* an array that is never closed ends with not-found.
C18_UnclosedArray ==
    (pc = "searchKeysP" /\ keys = <<B>> /\ data = UnclosedArray) =>
        Returned(res) /\ res.off = -1

\* ---------------------------------------------------------------------
\* Bare tokens
\* ---------------------------------------------------------------------
\* The whole buffer is one bare token of kind Number or Boolean, with no
\* byte behind it.
BareToEnd ==
    /\ doc.wf
    /\ doc.tree.kind \in {Number, Boolean}
    /\ data = doc.tree.lit

\* C19: Get on a buffer that is one bare token running to the end of the
\* input takes the end of the input for the terminator: it returns the
\* token as Number or Boolean, with no error and the length of the buffer
\* as end offset (tokenEnd and Get of src/parser.go).
C19_EndOfInputTerminates ==
    (pc = "GetP" /\ keys = <<>> /\ BareToEnd) =>
        /\ Succeeded(res)
        /\ res.value = data
        /\ res.dataType = doc.tree.kind
        /\ res.offset = Len(data)

\* The buffer holds the bare token tok as the value Get is asked for.
IsBare(tok) == doc = Bare(tok) /\ Len(tok) > 0

\* The kind of a bare token, by the whole token.
KindOfToken(tok) ==
    IF Head(tok) \in {"t", "f"}
    THEN IF tok \in {trueLiteral, falseLiteral} THEN Boolean ELSE Unknown
    ELSE IF Head(tok) \in {"n", "u"}
    THEN IF tok = nullLiteral THEN Null ELSE Unknown
    ELSE IF Head(tok) \in Digits \cup {"-"} THEN Number
    ELSE Unknown

\* C20: Get classifies a bare value by its whole token: true and false
\* are Boolean, null is Null, a token that starts with a digit or '-' is
\* Number, and every other bare token, a near-miss such as txyz
\* included, gives kind Unknown with UnknownValueTypeError and no value.
C20_WholeToken ==
    GetDone =>
        \A tok \in BareTokens :
            IsBare(tok) =>
                /\ Returned(res)
                /\ res.dataType = KindOfToken(tok)
                /\ IF KindOfToken(tok) = Unknown
                   THEN res.err = UnknownValueTypeError /\ res.value = <<>>
                   ELSE res.err = ErrNil
                /\ KindOfToken(tok) \in {Boolean, Number} => res.value = tok

\* ---------------------------------------------------------------------
\* Get and the bytes behind the value
\* ---------------------------------------------------------------------
\* Bytes put in the place of what follows the end offset.
Tails ==
    {<<>>, <<"x">>, <<QUOTE>>, <<"]">>, <<"}">>, <<"[", "{">>, <<BSL>>,
     <<",">> \o Str(A) \o <<":", "1">>}

\* Get of the revision that made the call, on another buffer.
GetAgain(d) == IF pc = "Get" THEN Get(d, keys) ELSE GetP(d, keys)

SameResult(r, s) ==
    /\ Succeeded(s)
    /\ s.dataType = r.dataType
    /\ s.value = r.value
    /\ s.offset = r.offset

OutsideElements(ks) == Len(ks) > 0 => LiteralPath(Front(ks))

Magnitude(tok) == IF Len(tok) > 0 /\ Head(tok) = "-" THEN Tail(tok) ELSE tok
IsDecimal(tok) ==
    /\ Len(Magnitude(tok)) > 0
    /\ \A n \in 1..Len(Magnitude(tok)) : Magnitude(tok)[n] \in Digits

\* The digits without leading zeros (one digit at least).
RECURSIVE Canonical(_)
Canonical(ds) == IF Len(ds) > 1 /\ Head(ds) = "0" THEN Canonical(Tail(ds)) ELSE ds

\* a <= b for canonical digit strings.
RECURSIVE DigitsLeq(_, _)
DigitsLeq(a, b) ==
    IF Len(a) # Len(b) THEN Len(a) < Len(b)
    ELSE IF Len(a) = 0 THEN TRUE
    ELSE IF Head(a) # Head(b) THEN DigitOf(Head(a)) < DigitOf(Head(b))
    ELSE DigitsLeq(Tail(a), Tail(b))

\* The token's value lies in the signed 64-bit range.
InInt64(tok) ==
    DigitsLeq(Canonical(Magnitude(tok)),
              MaxInt64Front \o <<IF Head(tok) = "-" THEN "8" ELSE "7">>)

\* The digits of an unsigned word: division by ten, limb by limb from
\* the highest.
RECURSIVE DivTen(_, _, _)
DivTen(v, n, rem) ==
    IF n = 0 THEN [q |-> <<>>, r |-> rem]
    ELSE LET Rest(lower) == [q |-> Append(lower.q, (rem * Limb + v[n]) \div 10), r |-> lower.r]
         IN  Rest(DivTen(v, n - 1, (rem * Limb + v[n]) % 10))

RECURSIVE UnsignedDigits(_)
UnsignedDigits(v) ==
    LET Step(d) == IF d.q = Zero64 THEN <<DigitSeq(d.r)>>
                   ELSE Append(UnsignedDigits(d.q), DigitSeq(d.r))
    IN  Step(DivTen(v, Len(v), 0))

\* The int64 v written as a decimal token.
Decimal64(v) ==
    IF v[4] >= Limb \div 2 THEN <<"-">> \o UnsignedDigits(Negate(v, 1, 1))
    ELSE UnsignedDigits(v)

\* The token as Decimal64 writes its value.
Written(tok) ==
    IF Canonical(Magnitude(tok)) = <<"0">> THEN <<"0">>
    ELSE IF Head(tok) = "-" THEN <<"-">> \o Canonical(Magnitude(tok))
    ELSE Canonical(Magnitude(tok))

\* C22: integer parsing detects overflow: a decimal token whose value is
\* outside the signed 64-bit range is rejected, and a token inside it,
\* the bounds 9223372036854775807 and -9223372036854775808 included,
\* parses to its exact value.
C22_DetectsOverflow ==
    (pc = "BytesParseInt" /\ IsDecimal(data)) =>
        IF InInt64(data)
        THEN res.ok /\ Decimal64(res.v) = Written(data)
        ELSE ~res.ok

\* ---------------------------------------------------------------------
\* Strings with escapes
\* ---------------------------------------------------------------------
\* The string the call was given has an escape the decoder rejects:
\* ParseString gets the buffer, GetString the bytes between the quotes of
\* the string Get found.
ParsedBadEscape == pc \in {"ParseString", "ParseStringP"} /\ ~Unescape(data).ok
GotBadEscape ==
    /\ pc \in {"GetString", "GetStringP"}
    /\ Succeeded(GetP(data, keys)) /\ GetP(data, keys).dataType = String
    /\ ~Unescape(GetP(data, keys).value).ok

\* C23: GetString and ParseString return an error when the escape
\* decoder fails on the string; they never return the empty string with
\* a nil error for it.
C23_BadEscapeIsError ==
    (ParsedBadEscape \/ GotBadEscape) => ~res.panic /\ res.err # ErrNil

\* ---------------------------------------------------------------------
\* Lines and columns
\* ---------------------------------------------------------------------
NewlinesBefore(off) == {j \in 0..(off - 1) : At(data, j) = "\n"}
LineStart(off) ==
    IF NewlinesBefore(off) = {} THEN 0
    ELSE (CHOOSE j \in NewlinesBefore(off) : \A k \in NewlinesBefore(off) : k <= j) + 1
InBlob(off) == off >= 0 /\ off < Len(data)

\* C24: OffsetToLineCol returns (-1,-1,-1) exactly when the offset is
\* outside the blob; for every other offset that is no newline byte it
\* returns, without faulting, the number of newlines before the offset as
\* line and the distance from the first byte of that line as byte
\* column.
C24_LineAndColumn ==
    pc = "OffsetToLineCol" =>
        /\ ~res.panic
        /\ (res.line = -1 /\ res.bytecol = -1 /\ res.runecol = -1) <=> ~InBlob(res.offset)
        /\ (InBlob(res.offset) /\ At(data, res.offset) # "\n") =>
               /\ res.line = Cardinality(NewlinesBefore(res.offset))
               /\ res.bytecol = res.offset - LineStart(res.offset)

\* ---------------------------------------------------------------------
\* Ends of strings and blocks
\* ---------------------------------------------------------------------
\* The number of consecutive backslashes that end right before s[i].
BackslashRun(s, i) ==
    Cardinality({k \in 1..i : \A j \in (i - k)..(i - 1) : At(s, j) = BSL})
ClosingQuotes(s) ==
    {i \in 0..(Len(s) - 1) : At(s, i) = QUOTE /\ BackslashRun(s, i) % 2 = 0}

\* C25: stringEnd(s) returns i+1 for the smallest i such that s[i] is a
\* quote preceded by an even number of consecutive backslashes, and -1
\* exactly when there is no such index.
C25_FirstClosingQuote ==
    pc = "stringEnd" =>
        IF ClosingQuotes(data) = {} THEN res.end = -1
        ELSE res.end = Min(ClosingQuotes(data)) + 1

\* C25 witness: a quote after one backslash is passed over and the
\* string ends at a later quote.
C25_Witness ==
    /\ pc = "stringEnd"
    /\ Len(data) > 2
    /\ At(data, 0) = BSL
    /\ At(data, 1) = QUOTE
    /\ res.end > 2

\* The bytes of s outside quoted strings, from a scan that carries
\* whether it is in a string and whether the byte before was an escaping
\* backslash.
RECURSIVE OutsideStrings(_, _, _, _)
OutsideStrings(s, i, inString, esc) ==
    IF i >= Len(s) THEN {}
    ELSE IF ~inString
    THEN IF At(s, i) = QUOTE THEN OutsideStrings(s, i + 1, TRUE, FALSE)
         ELSE {i} \cup OutsideStrings(s, i + 1, FALSE, FALSE)
    ELSE IF esc THEN OutsideStrings(s, i + 1, TRUE, FALSE)
    ELSE IF At(s, i) = BSL THEN OutsideStrings(s, i + 1, TRUE, TRUE)
    ELSE IF At(s, i) = QUOTE THEN OutsideStrings(s, i + 1, FALSE, FALSE)
    ELSE OutsideStrings(s, i + 1, TRUE, FALSE)

Depth(s, outside, openSym, closeSym, p) ==
    Cardinality({j \in outside : j <= p /\ At(s, j) = openSym})
        - Cardinality({j \in outside : j <= p /\ At(s, j) = closeSym})
Balanced(s, outside, openSym, closeSym) ==
    {p \in 0..(Len(s) - 1) : Depth(s, outside, openSym, closeSym, p) = 0}

\* C26: blockEnd(s, open, close) with s[0] = open returns p+1 for the
\* smallest p at which the opens minus the closes outside quoted strings
\* in s[0..p] reach zero, and -1 when there is no such p; brackets inside
\* strings do not count.
C26_BalancedBlock ==
    (pc = "blockEnd" /\ Len(data) > 0 /\ At(data, 0) = res.openSym) =>
        LET Ends(b) == IF b = {} THEN res.end = -1 ELSE res.end = Min(b) + 1
        IN  Ends(Balanced(data, OutsideStrings(data, 0, FALSE, FALSE),
                          res.openSym, res.closeSym))

\* C26 witness: a block that holds a string with a closing bracket in it.
C26_Witness ==
    /\ pc = "blockEnd"
    /\ Len(data) > 4
    /\ At(data, 0) = res.openSym
    /\ At(data, 1) = QUOTE
    /\ At(data, 2) = res.closeSym
    /\ At(data, 3) = QUOTE
    /\ res.end = 5

\* ---------------------------------------------------------------------
\* Literal keys and arrays
\* ---------------------------------------------------------------------
\* The arrays of the buffer that are open at offset p: the brackets
\* outside strings before p whose block does not end at or before p.
OpenArrays(s, p) ==
    LET Open(outside) ==
            {j \in outside :
                /\ j < p
                /\ At(s, j) = "["
                /\ \A q \in j..(p - 1) :
                       Cardinality({k \in outside : j <= k /\ k <= q /\ At(s, k) = "["})
                         > Cardinality({k \in outside : j <= k /\ k <= q /\ At(s, k) = "]"})}
    IN  Open(OutsideStrings(s, 0, FALSE, FALSE))

C28_KeyLevelInRange ==
    pc = "scan" => (0 <= res.keyLevel /\ res.keyLevel <= res.level)

\* ---------------------------------------------------------------------
\* Lookups on a JsonValue
\* ---------------------------------------------------------------------
\* C29: after any sequence of Get and Index calls on a JsonValue, failed
\* ones included, its data, Type and error are what ParseJson produced.
C29_ReceiverUnchanged ==
    pc \in {"JsonValue.Get", "JsonValue.Index"} => res.jv = ParseJson(data, keys)

\* ---------------------------------------------------------------------
\* The struct cache
\* ---------------------------------------------------------------------
\* C30: no two concurrent unmarshalStruct calls are at the cache map at
\* the same time with one of them writing it.
C30_NoConcurrentMapAccess ==
    \A g \in Goroutines : ~((At81(g) \/ At101(g)) /\ Racing(g))

====
